---- MODULE Spec2Model ----
(***************************************************************************)
(* A state-machine model of the gorm connection handle (src/main.go): the  *)
(* clone-on-chain query builder, error accumulation, transactions and the  *)
(* terminal CRUD operations.                                               *)
(*                                                                         *)
(* Handles (gormDB) and condition sets (Search) are heap objects: the      *)
(* variables `handles' and `searches' map object identities (positive      *)
(* integers, 0 is nil) to their fields, so that sharing a pointer and      *)
(* copying an object are different things in the model, as in the code.    *)
(*                                                                         *)
(* The Search, Scope, Errors and callback code is not part of src/; those  *)
(* definitions follow spec.md and are marked so where they are defined.    *)
(***************************************************************************)
EXTENDS Integers, Sequences, FiniteSets, TLC

\* Number of handles the caller holds at most (the root included).
MaxHandles == 3

\* The same, where the caller also adds errors of its own to the handles.
MaxErrHandles == 2

\* Number of registries at most, DefaultCallback included.
MaxRegistries == 3

\* Number of Association handles the caller holds at most.
MaxAssocs == 2

\* Number of chain executions in flight at most.
MaxRunning == 2

\* Number of log lines at most, printed or yet to be printed.
MaxLines == 3

\* Number of values passed to one DropTable call at most.
MaxDrops == 2

\* Column values used in conditions, Attrs/Assign values and rows.
Names == {"a", "b"}

\* Setting names a caller passes to Set / InstantSet.
SettingNames == {"k"}

\* Every setting name in use: the caller's and the ones the operations set.
SettingKeys ==
    SettingNames \cup
    {"gorm:order_by_primary_key", "gorm:query_destination",
     "gorm:ignore_protected_attrs", "gorm:update_interface",
     "gorm:update_column", "gorm:save_associations",
     "gorm:association:source"}

\* The value of a name that is not in a settings map.
Absent == "<absent>"

ErrRecordNotFound == "record not found"
ErrInvalidTransaction == "no valid transaction"
ErrCantStartTransaction == "can't start transaction"
\* database/sql's answer to Commit/Rollback on a finished transaction.
ErrTxDone == "sql: transaction has already been committed or rolled back"
\* Failures of the underlying connection.
ErrBegin == "begin failed"
ErrQuery == "query failed"
ErrInsert == "insert failed"
ErrAssocPrimaryKey == "primary key can't be nil"
ErrAssocInvalid == "invalid association"
ErrAssocNoColumn == "doesn't have column"
ErrUpdate == "update failed"
\* The error a registered step records.
ErrStep == "step failed"
\* Errors a caller hands to AddError.
UserErrors == {"e1", "e2"}

VARIABLES
    handles,    \* handle id -> gormDB fields
    searches,   \* search id -> Search fields
    txs,        \* transaction id -> "active" | "committed" | "rolledback"
    rows,       \* the rows of the one table: a set of [id, name]
    last,       \* what the last operation was, and what it did
    added,      \* history: handle id -> the distinct errors AddError was
                \* given on it (or on the handle it was cloned from), in
                \* order of first occurrence
    log,        \* history: one entry per FirstOrInit / FirstOrCreate call
    registries, \* registry id -> Callback fields: the chain of each kind
    assocs,     \* association id -> Association fields
    running,    \* execution id -> a chain execution in flight: its Scope,
                \* the steps it was handed and the ones it has run
    logger      \* the log lines AddError has dispatched as background
                \* tasks and that are yet to be printed, and the lines
                \* printed so far

vars ==
    <<handles, searches, txs, rows, last, added, log, registries, assocs,
      running, logger>>

----------------------------------------------------------------------------
(* Heap helpers *)

NilPtr == 0

\* The smallest identity not in use in heap f.
FreshId(f) ==
    CHOOSE n \in 1..(Cardinality(DOMAIN f) + 1) :
        n \notin DOMAIN f /\ \A m \in 1..(n - 1) : m \in DOMAIN f

Put(f, k, v) == [x \in DOMAIN f \cup {k} |-> IF x = k THEN v ELSE f[x]]

Restrict(f, S) == [x \in S \cap DOMAIN f |-> f[x]]

\* The world the operations act on: the heaps, the connection's
\* transactions, the table, and the effects observed during one operation
\* (calls made on the underlying connection, callback chains run, the steps
\* of those chains in the order they ran).
World ==
    [h |-> handles, s |-> searches, tx |-> txs, rows |-> rows,
     added |-> added, regs |-> registries, assocs |-> assocs,
     running |-> running, logger |-> logger,
     calls |-> <<>>, chains |-> <<>>, steps |-> <<>>, ddl |-> <<>>,
     panic |-> FALSE]

----------------------------------------------------------------------------
(* Errors: gormDB.err is nil, one error, or an Errors aggregate *)

NilErr == [agg |-> FALSE, errs |-> <<>>]

OneErr(e) == [agg |-> FALSE, errs |-> <<e>>]

AggErr(list) == [agg |-> TRUE, errs |-> list]

SeqContains(q, e) == \E i \in 1..Len(q) : q[i] = e

\* Errors.Add: appends each new error that is not already in the list; an
\* aggregate argument is flattened.
RECURSIVE ErrorsAdd(_, _)
ErrorsAdd(errs, new) ==
    IF new = <<>> THEN errs
    ELSE ErrorsAdd(IF SeqContains(errs, Head(new)) THEN errs
                   ELSE Append(errs, Head(new)),
                   Tail(new))

\* func (s *gormDB) GetErrors() []error
GetErrors(d) ==
    IF d.err.agg THEN d.err.errs
    ELSE IF d.err # NilErr THEN <<d.err.errs[1]>>
    ELSE <<>>

\* RecordNotFound looking at the error itself and not at the list.
RecordNotFoundDirect(d) == d.err = OneErr(ErrRecordNotFound)

\* func (s *gormDB) RecordNotFound() bool
RecordNotFound(d) ==
    \E i \in 1..Len(GetErrors(d)) : GetErrors(d)[i] = ErrRecordNotFound

\* AddErrorValue with the aggregation left out: the new error replaces the
\* old one.
AddErrorValueReplacing(d, err) == err

\* The error AddError stores and returns for a non-nil err.
AddErrorValue(d, err) ==
    IF err # OneErr(ErrRecordNotFound)
    THEN LET errors == ErrorsAdd(GetErrors(d), err.errs)
         IN  IF Len(errors) > 1 THEN AggErr(errors) ELSE err
    ELSE err

\* History: the errors given so far, with those of err not yet among them.
RECURSIVE Remember(_, _)
Remember(seen, errs) ==
    IF errs = <<>> THEN seen
    ELSE Remember(IF \E i \in 1..Len(seen) : seen[i] = errs[1] THEN seen
                  ELSE seen \o <<errs[1]>>,
                  SubSeq(errs, 2, Len(errs)))

\* func (s *gormDB) AddError(err error) error: the world after the call.
AddError(w, id, err) ==
    IF err # NilErr
    THEN [w EXCEPT !.h[id].err = AddErrorValue(w.h[id], err),
                   !.added[id] = Remember(@, err.errs)]
    ELSE w

----------------------------------------------------------------------------
(* Search: the condition set *)

\* &Search{limit: -1, offset: -1}
NewSearch ==
    [db |-> NilPtr, conds |-> <<>>, initAttrs |-> "", assignAttrs |-> "",
     selects |-> "", omits |-> "", orders |-> <<>>, preload |-> <<>>,
     offset |-> -1, limit |-> -1, group |-> "", tableName |-> "",
     raw |-> FALSE, unscoped |-> FALSE]

\* Search.clone: a copy with condition storage of its own.
SearchClone(sr) == sr

\* The condition set a caller observes through a handle: everything but the
\* back pointer to the owning handle.
CondSetOf(sr) == [f \in DOMAIN sr \ {"db"} |-> sr[f]]

\* The condition set of handle id in heaps h, s; a handle with no Search
\* has the empty condition set.
ObservedConds(h, s, id) ==
    IF h[id].search = NilPtr THEN CondSetOf(NewSearch)
    ELSE CondSetOf(s[h[id].search])

Frag(kind, q) == [kind |-> kind, q |-> q]

\* The condition-building methods of Search, by name.
SearchApply(sr, m, arg) ==
    CASE m = "Where" -> [sr EXCEPT !.conds = Append(@, Frag("where", arg))]
      [] m = "Or" -> [sr EXCEPT !.conds = Append(@, Frag("or", arg))]
      [] m = "Not" -> [sr EXCEPT !.conds = Append(@, Frag("not", arg))]
      [] m = "Having" -> [sr EXCEPT !.conds = Append(@, Frag("having", arg))]
      [] m = "Joins" -> [sr EXCEPT !.conds = Append(@, Frag("joins", arg))]
      [] m = "Limit" -> [sr EXCEPT !.limit = arg]
      [] m = "Offset" -> [sr EXCEPT !.offset = arg]
      [] m = "Order" -> [sr EXCEPT !.orders = Append(@, arg)]
      [] m = "Reorder" -> [sr EXCEPT !.orders = <<arg>>]
      [] m = "Select" -> [sr EXCEPT !.selects = arg]
      [] m = "Omit" -> [sr EXCEPT !.omits = arg]
      [] m = "Group" -> [sr EXCEPT !.group = arg]
      [] m = "Preload" -> [sr EXCEPT !.preload = Append(@, arg)]
      [] m = "Attrs" -> [sr EXCEPT !.initAttrs = arg]
      [] m = "Assign" -> [sr EXCEPT !.assignAttrs = arg]
      [] m = "unscoped" -> [sr EXCEPT !.unscoped = TRUE]
      [] m = "Table" -> [sr EXCEPT !.tableName = arg]
      [] m = "Raw" -> [sr EXCEPT !.raw = arg]

----------------------------------------------------------------------------
(* Clone *)

\* Clone keeping the receiver's Search instead of a clone of it.
CloneSharingSearch(w, id) ==
    LET s == w.h[id]
        n == FreshId(w.h)
        k == IF s.search = NilPtr THEN FreshId(w.s) ELSE s.search
        sr == IF s.search = NilPtr THEN NewSearch ELSE w.s[s.search]
        db == [s EXCEPT !.rowsAffected = 0, !.search = k,
                        !.callbacks = NilPtr, !.singularTable = FALSE,
                        !.dialectDB = s.db]
    IN  [w |-> [w EXCEPT !.h = Put(w.h, n, db),
                         !.s = Put(w.s, k, [sr EXCEPT !.db = n]),
                         !.added = Put(w.added, n, w.added[id])],
         r |-> n]

\* Clone whose result is its own parent.
CloneOwnParent(w, id) ==
    LET s == w.h[id]
        n == FreshId(w.h)
        k == FreshId(w.s)
        sr == IF s.search = NilPtr THEN NewSearch
              ELSE SearchClone(w.s[s.search])
        db == [value |-> s.value,
               err |-> s.err,
               rowsAffected |-> 0,
               db |-> s.db,
               blockGlobalUpdate |-> s.blockGlobalUpdate,
               logMode |-> s.logMode,
               search |-> k,
               values |-> s.values,
               parent |-> n,
               callbacks |-> NilPtr,
               singularTable |-> FALSE,
               dialectDB |-> s.db]
    IN  [w |-> [w EXCEPT !.h = Put(w.h, n, db),
                         !.s = Put(w.s, k, [sr EXCEPT !.db = n]),
                         !.added = Put(w.added, n, w.added[id])],
         r |-> n]

\* func (s *gormDB) Clone() GormDB: allocates the clone and its Search.
\* Returns the world and the clone's identity.
Clone(w, id) ==
    LET s == w.h[id]
        n == FreshId(w.h)
        k == FreshId(w.s)
        sr == IF s.search = NilPtr THEN NewSearch
              ELSE SearchClone(w.s[s.search])
        db == [value |-> s.value,
               err |-> s.err,
               rowsAffected |-> 0,
               db |-> s.db,
               blockGlobalUpdate |-> s.blockGlobalUpdate,
               logMode |-> s.logMode,
               search |-> k,
               values |-> s.values,
               parent |-> s.parent,
               callbacks |-> NilPtr,
               singularTable |-> FALSE,
               dialectDB |-> s.db]
    IN  [w |-> [w EXCEPT !.h = Put(w.h, n, db),
                         !.s = Put(w.s, k, [sr EXCEPT !.db = n]),
                         !.added = Put(w.added, n, w.added[id])],
         r |-> n]

\* s.Clone().Search().M(arg).db : the shape of every condition-building
\* method. Search's methods change the Search in place and return it.
CloneApply(w, id, m, arg) ==
    LET c == Clone(w, id)
        k == c.w.h[c.r].search
    IN  [w |-> [c.w EXCEPT !.s[k] = SearchApply(@, m, arg)],
         r |-> c.w.s[k].db]

----------------------------------------------------------------------------
(* Values and the end of an operation *)

\* A struct value: a primary key (0 is blank) and one column.
Struct(id, name) == [id |-> id, name |-> name]

\* The nil interface value.
NilValue == [id |-> -1, name |-> ""]

BlankStruct == Struct(0, "")

\* The searches the handles in h point to.
LiveSearches(h) == {h[i].search : i \in DOMAIN h} \ {NilPtr}

\* The operation returns: the caller keeps the handles it held and the one
\* returned; the clones, scopes and searches made on the way are garbage.
Return(w, op, recv, ret, arg, out) ==
    LET keep == Restrict(w.h, DOMAIN handles \cup {ret})
    IN  /\ handles' = keep
        /\ searches' = Restrict(w.s, LiveSearches(keep))
        /\ added' = Restrict(w.added, DOMAIN keep)
        /\ txs' = w.tx
        /\ rows' = w.rows
        /\ registries' = w.regs
        /\ assocs' = w.assocs
        /\ running' = w.running
        /\ logger' = w.logger
        /\ last' = [op |-> op, recv |-> recv, ret |-> ret, arg |-> arg,
                    out |-> out, calls |-> w.calls, chains |-> w.chains,
                    steps |-> w.steps, ddl |-> w.ddl, panic |-> w.panic]

Finish(w, op, recv, ret, arg, out) ==
    Return(w, op, recv, ret, arg, out) /\ log' = log

\* The caller can hold one more handle.
Room == Cardinality(DOMAIN handles) < MaxHandles

Builder(s, m, arg) ==
    /\ Room
    /\ LET c == CloneApply(World, s, m, arg)
       IN  Finish(c.w, m, s, c.r, arg, NilValue)

----------------------------------------------------------------------------
(* The condition-building methods of the handle *)

Where(s, q) == Builder(s, "Where", q)

Or(s, q) == Builder(s, "Or", q)

Not(s, q) == Builder(s, "Not", q)

Limit(s, n) == Builder(s, "Limit", n)

Offset(s, n) == Builder(s, "Offset", n)

Order(s, v, reorder) == Builder(s, IF reorder THEN "Reorder" ELSE "Order", v)

Select(s, q) == Builder(s, "Select", q)

Omit(s, q) == Builder(s, "Omit", q)

Group(s, q) == Builder(s, "Group", q)

Having(s, q) == Builder(s, "Having", q)

Joins(s, q) == Builder(s, "Joins", q)

Unscoped(s) == Builder(s, "unscoped", TRUE)

Attrs(s, v) == Builder(s, "Attrs", v)

Assign(s, v) == Builder(s, "Assign", v)

Preload(s, col) == Builder(s, "Preload", col)

\* s.Clone().Search().Raw(true).Where(sql, values...).db
Raw(s, sql) ==
    /\ Room
    /\ LET c == Clone(World, s)
           k == c.w.h[c.r].search
           w1 == [c.w EXCEPT !.s[k] = SearchApply(@, "Raw", TRUE)]
           w2 == [w1 EXCEPT !.s[k] = SearchApply(@, "Where", sql)]
       IN  Finish(w2, "Raw", s, w2.s[k].db, sql, NilValue)

\* clone.Search().Table(name); clone.SetValue(nil)
Table(s, name) ==
    /\ Room
    /\ LET c == Clone(World, s)
           k == c.w.h[c.r].search
           w1 == [c.w EXCEPT !.s[k] = SearchApply(@, "Table", name)]
           w2 == [w1 EXCEPT !.h[c.r].value = NilValue]
       IN  Finish(w2, "Table", s, c.r, name, NilValue)

\* c := s.Clone(); c.SetValue(value)
Model(s, value) ==
    /\ Room
    /\ LET c == Clone(World, s)
           w1 == [c.w EXCEPT !.h[c.r].value = value]
       IN  Finish(w1, "Model", s, c.r, value, NilValue)

\* clone := s.Clone(); clone.SetSearch(nil); clone.SetValue(nil)
NewOp(w, s) ==
    LET c == Clone(w, s)
    IN  [w |-> [c.w EXCEPT !.h[c.r].search = NilPtr,
                           !.h[c.r].value = NilValue],
         r |-> c.r]

New(s) ==
    /\ Room
    /\ LET n == NewOp(World, s)
       IN  Finish(n.w, "New", s, n.r, NilValue, NilValue)

----------------------------------------------------------------------------
(* Open *)

\* What the root handle is opened on: a *sql.DB, or a connection that is
\* neither a *sql.DB nor a transaction.
SqlDB == [kind |-> "sqlDB", id |-> 0]

PlainConn == [kind |-> "plain", id |-> 0]

\* A transaction handed out by Begin; a failed Begin hands out a nil *sql.Tx.
SqlTx(t) == [kind |-> "sqlTx", id |-> t]

NilTx == [kind |-> "nilTx", id |-> 0]

\* One step of a chain: its name and the function registered under it.
Step(name, fn) == [name |-> name, fn |-> fn]

\* The steps gorm registers itself, named after their function.
DefaultStep(name) == Step(name, name)

\* The identity of DefaultCallback, the registry every root starts with.
DefaultCallback == 1

\* DefaultCallback as gorm fills it: per kind, the hooks and the step that
\* runs the statement.
DefaultRegistry ==
    [creates |-> <<DefaultStep("gorm:before_create"),
                   DefaultStep("gorm:create")>>,
     updates |-> <<DefaultStep("gorm:before_update"),
                   DefaultStep("gorm:update")>>,
     deletes |-> <<DefaultStep("gorm:before_delete"),
                   DefaultStep("gorm:delete")>>,
     queries |-> <<DefaultStep("gorm:query"),
                   DefaultStep("gorm:after_query")>>,
     \* history: the root through whose handle Callback() returned it
     root |-> NilPtr]

\* Open: the root handle, its own parent, holding no search.
Open(conn) ==
    [value |-> NilValue,
     err |-> NilErr,
     rowsAffected |-> 0,
     db |-> conn,
     blockGlobalUpdate |-> FALSE,
     logMode |-> 0,
     search |-> NilPtr,
     values |-> [k \in SettingKeys |-> Absent],
     parent |-> 1,
     callbacks |-> DefaultCallback,
     singularTable |-> FALSE,
     dialectDB |-> conn]

NoOp ==
    [op |-> "Open", recv |-> NilPtr, ret |-> 1, arg |-> NilValue,
     out |-> NilValue, calls |-> <<>>, chains |-> <<>>, steps |-> <<>>,
     ddl |-> <<>>, panic |-> FALSE]

Init ==
    /\ \E conn \in {SqlDB, PlainConn} : handles = (1 :> Open(conn))
    /\ searches = << >>
    /\ txs = <<>>
    /\ rows = {}
    /\ last = NoOp
    /\ added = (1 :> <<>>)
    /\ log = <<>>
    /\ registries = (DefaultCallback :> DefaultRegistry)
    /\ assocs = << >>
    /\ running = << >>
    /\ logger = [pending |-> <<>>, printed |-> <<>>]

----------------------------------------------------------------------------
(* Scope and the callback chains *)

\* func (s *gormDB) InstantSet(name string, value interface{}) GormDB
InstantSet(w, s, name, value) == [w EXCEPT !.h[s].values[name] = value]

\* NewScope working on the receiver instead of a clone.
NewScopeNoClone(w, s, value) ==
    LET w0 == IF w.h[s].search = NilPtr
              THEN [w EXCEPT !.s = Put(w.s, FreshId(w.s), NewSearch),
                             !.h[s].search = FreshId(w.s)]
              ELSE w
        w1 == [w0 EXCEPT !.h[s].value = value]
        k == FreshId(w1.s)
        sr == SearchClone(w1.s[w1.h[s].search])
    IN  [w |-> [w1 EXCEPT !.s = Put(w1.s, k, sr)],
         db |-> s, search |-> k, value |-> value, slice |-> FALSE]

\* func (s *gormDB) NewScope(value interface{}) *Scope
\* The scope holds the clone, a clone of the clone's Search, and the value.
NewScope(w, s, value) ==
    LET c == Clone(w, s)
        w1 == [c.w EXCEPT !.h[c.r].value = value]
        k == FreshId(w1.s)
        sr == SearchClone(w1.s[w1.h[c.r].search])
    IN  [w |-> [w1 EXCEPT !.s = Put(w1.s, k, sr)],
         db |-> c.r, search |-> k, value |-> value, slice |-> FALSE]

\* Scope.Set: a setting on the scope's handle.
ScopeSet(sc, name, value) ==
    [sc EXCEPT !.w = InstantSet(sc.w, sc.db, name, value)]

\* Scope.InstanceSet: a setting of this scope, kept on the scope's handle.
ScopeInstanceSet(sc, name, value) == ScopeSet(sc, name, value)

\* Scope.inlineCondition: the extra arguments of First/Find/Delete become a
\* where condition of the scope's Search; "" stands for no argument.
InlineCondition(sc, where) ==
    IF where = "" THEN sc
    ELSE [sc EXCEPT !.w.s[sc.search] = SearchApply(@, "Where", where)]

\* Whether a row satisfies the conditions of a Search and, when the value
\* has a primary key, is the row with that key.
Matches(r, sr, value) ==
    LET of(kind) == {i \in 1..Len(sr.conds) : sr.conds[i].kind = kind}
    IN  /\ value.id > 0 => r.id = value.id
        /\ \/ /\ \A i \in of("where") : r.name = sr.conds[i].q
              /\ \A i \in of("not") : r.name # sr.conds[i].q
           \/ \E i \in of("or") : r.name = sr.conds[i].q

\* Scope.updatedAttrsWithValues: sets the value's column; "" sets nothing.
UpdatedAttrs(value, name) ==
    IF name = "" THEN value ELSE [value EXCEPT !.name = name]

RECURSIVE WhereAttrs(_, _)
WhereAttrs(value, conds) ==
    IF conds = <<>> THEN value
    ELSE WhereAttrs(IF Head(conds).kind = "where"
                    THEN UpdatedAttrs(value, Head(conds).q) ELSE value,
                    Tail(conds))

\* Scope.initialize: the value gets the where conditions, then Attrs, then
\* Assign.
Initialize(sc) ==
    LET sr == sc.w.s[sc.search]
    IN  [sc EXCEPT !.value =
            UpdatedAttrs(UpdatedAttrs(WhereAttrs(@, sr.conds), sr.initAttrs),
                         sr.assignAttrs)]

MinRow(S) == CHOOSE r \in S : \A o \in S : r.id <= o.id

MaxRow(S) == CHOOSE r \in S : \A o \in S : r.id >= o.id

NextRowId(S) == IF S = {} THEN 1 ELSE MaxRow(S).id + 1

SetRows(w, s, n) == [w EXCEPT !.h[s].rowsAffected = n]

\* The query step. It does nothing once the handle holds an error.
\* A struct destination with no row found records ErrRecordNotFound.
QueryChain(sc, fail) ==
    LET d == sc.w.h[sc.db]
        sr == sc.w.s[sc.search]
        hits == {r \in sc.w.rows : Matches(r, sr, sc.value)}
        n == IF sr.limit >= 0 /\ sr.limit < Cardinality(hits)
             THEN sr.limit ELSE Cardinality(hits)
    IN  IF d.err # NilErr THEN sc
        ELSE IF fail
        THEN [sc EXCEPT !.w = AddError(@, sc.db, OneErr(ErrQuery))]
        ELSE IF sc.slice
        THEN [sc EXCEPT !.w = SetRows(@, sc.db, n)]
        ELSE IF hits = {}
        THEN [sc EXCEPT
                !.w = AddError(SetRows(@, sc.db, 0), sc.db,
                               OneErr(ErrRecordNotFound))]
        ELSE [sc EXCEPT
                !.w = SetRows(@, sc.db, n),
                !.value = IF d.values["gorm:order_by_primary_key"] = "DESC"
                          THEN MaxRow(hits) ELSE MinRow(hits)]

\* The create step: inserts the value, giving it a primary key if blank.
CreateChain(sc, fail) ==
    LET d == sc.w.h[sc.db]
        id == IF sc.value.id > 0 THEN sc.value.id ELSE NextRowId(sc.w.rows)
        row == Struct(id, sc.value.name)
    IN  IF d.err # NilErr THEN sc
        ELSE IF fail \/ \E r \in sc.w.rows : r.id = id
        THEN [sc EXCEPT !.w = AddError(@, sc.db, OneErr(ErrInsert))]
        ELSE [sc EXCEPT !.w = SetRows([@ EXCEPT !.rows = @ \cup {row}],
                                      sc.db, 1),
                        !.value = row]

\* The update step: the rows matched get the "gorm:update_interface"
\* column value, or the value's own column when none is set.
UpdateChain(sc) ==
    LET d == sc.w.h[sc.db]
        sr == sc.w.s[sc.search]
        hits == {r \in sc.w.rows : Matches(r, sr, sc.value)}
        to == IF d.values["gorm:update_interface"] # Absent
              THEN d.values["gorm:update_interface"] ELSE sc.value.name
        new == {UpdatedAttrs(r, to) : r \in hits}
    IN  IF d.err # NilErr THEN sc
        ELSE [sc EXCEPT
                !.w = SetRows([@ EXCEPT !.rows = (@ \ hits) \cup new],
                              sc.db, Cardinality(hits)),
                !.value = UpdatedAttrs(@, to)]

\* The delete step: the rows matched are removed.
DeleteChain(sc) ==
    LET d == sc.w.h[sc.db]
        sr == sc.w.s[sc.search]
        hits == {r \in sc.w.rows : Matches(r, sr, sc.value)}
    IN  IF d.err # NilErr THEN sc
        ELSE [sc EXCEPT !.w = SetRows([@ EXCEPT !.rows = @ \ hits],
                                      sc.db, Cardinality(hits))]

\* A lookup of the chain that reads DefaultCallback, whatever registry the
\* handle's parent has.
ChainOfDefault(w, s, kind) == w.regs[DefaultCallback][kind]

\* s.parent.Callbacks().<kind>: the chain a terminal operation hands to
\* callCallbacks, read from the registry of the handle's parent.
ChainOf(w, s, kind) == w.regs[w.h[w.h[s].parent].callbacks][kind]

\* One step run against the scope. gorm's own steps that run a statement do
\* nothing once the handle holds an error; `fail' makes the statement fail
\* underneath. A registered step records ErrStep ("fail"), records
\* ErrRecordNotFound ("notfound"), or only runs.
RunStep(sc, step, fail) ==
    LET ran == [sc EXCEPT !.w.steps = Append(@, step.name)]
        d == ran.w.h[ran.db]
    IN  CASE step.fn = "gorm:query" -> QueryChain(ran, fail)
          [] step.fn = "gorm:create" -> CreateChain(ran, fail)
          [] step.fn = "gorm:update" ->
                IF fail /\ d.err = NilErr
                THEN [ran EXCEPT !.w = AddError(@, ran.db, OneErr(ErrUpdate))]
                ELSE UpdateChain(ran)
          [] step.fn = "gorm:delete" -> DeleteChain(ran)
          [] step.fn = "fail" ->
                [ran EXCEPT !.w = AddError(@, ran.db, OneErr(ErrStep))]
          [] step.fn = "notfound" ->
                [ran EXCEPT
                    !.w = AddError(@, ran.db, OneErr(ErrRecordNotFound))]
          [] OTHER -> ran

\* for _, f := range funcs { f(scope) }: every step, in order, one Scope.
RECURSIVE RunSteps(_, _, _)
RunSteps(sc, funcs, fail) ==
    IF funcs = <<>> THEN sc
    ELSE RunSteps(RunStep(sc, Head(funcs), fail), Tail(funcs), fail)

\* Scope.callCallbacks: runs the chain of one kind against the scope.
CallCallbacks(sc, kind, fail) ==
    RunSteps([sc EXCEPT !.w.chains = Append(@, kind)],
             ChainOf(sc.w, sc.db, kind), fail)

\* What an operation hands back: the world, the handle, the value.
Result(sc) == [w |-> sc.w, r |-> sc.db, out |-> sc.value]

----------------------------------------------------------------------------
(* The callback registry *)

\* Callback.clone: a registry of its own with the same chains.
RegistryClone(reg) == reg

\* Callback() returning the parent's registry itself, without the copy.
CallbackOpNoClone(w, s) ==
    [w |-> w, r |-> w.h[w.h[s].parent].callbacks]

\* func (s *gormDB) Callback() *Callback
\* The parent's registry is replaced by a clone of it, which is returned.
CallbackOp(w, s) ==
    LET p == w.h[s].parent
        k == FreshId(w.regs)
        copy == RegistryClone(w.regs[w.h[p].callbacks])
    IN  [w |-> [w EXCEPT !.regs = Put(@, k, [copy EXCEPT !.root = p]),
                         !.h[p].callbacks = k],
         r |-> k]

StepNamesOf(chain) == [i \in 1..Len(chain) |-> chain[i].name]

HasStep(chain, name) == \E i \in 1..Len(chain) : chain[i].name = name

\* The position of a step in a chain that has it.
IndexOf(chain, name) == CHOOSE i \in 1..Len(chain) : chain[i].name = name

Without(chain, name) == SelectSeq(chain, LAMBDA st : st.name # name)

InsertAt(chain, i, st) ==
    SubSeq(chain, 1, i - 1) \o <<st>> \o SubSeq(chain, i, Len(chain))

\* Register(name, fn): appended; names are unique in a chain.
RegisterStep(chain, st) ==
    IF HasStep(chain, st.name) THEN chain ELSE Append(chain, st)

\* Before(at).Register(name, fn): placed right before the step `at'; a
\* configuration error, and no change, when the chain has no such step.
BeforeStep(chain, at, st) ==
    LET rest == Without(chain, st.name)
    IN  IF ~HasStep(rest, at) THEN chain
        ELSE InsertAt(rest, IndexOf(rest, at), st)

\* After(at).Register(name, fn)
AfterStep(chain, at, st) ==
    LET rest == Without(chain, st.name)
    IN  IF ~HasStep(rest, at) THEN chain
        ELSE InsertAt(rest, IndexOf(rest, at) + 1, st)

\* Replace(name, fn): the function changes, the position does not.
ReplaceStep(chain, st) ==
    [i \in 1..Len(chain) |->
        IF chain[i].name = st.name THEN st ELSE chain[i]]

\* Remove(name)
RemoveStep(chain, name) == Without(chain, name)

\* One registration call on the chain `kind' of registry r.
Registered(chain, how, at, st) ==
    CASE how = "Register" -> RegisterStep(chain, st)
      [] how = "Before" -> BeforeStep(chain, at, st)
      [] how = "After" -> AfterStep(chain, at, st)
      [] how = "Replace" -> ReplaceStep(chain, st)
      [] how = "Remove" -> RemoveStep(chain, st.name)

----------------------------------------------------------------------------
(* Error logging *)

\* Removal of the i-th element of a sequence.
RemoveAt(seq, i) == SubSeq(seq, 1, i - 1) \o SubSeq(seq, i + 1, Len(seq))

\* The log line of an error.
LogLine(err) == err.errs

\* The logging of AddError done as a background task in every log mode.
LogErrorAlwaysAsync(w, id, err) ==
    IF err # OneErr(ErrRecordNotFound)
    THEN [w EXCEPT !.logger.pending = Append(@, LogLine(err))]
    ELSE w

\* if err != ErrRecordNotFound {
\*     if s.logMode == 0 { go s.Print(fileWithLineNum(), err) }
\*     else { s.Log(err) } ... }
\* Log prints, before it returns, when the log mode is 2 and does nothing
\* otherwise. The arguments of the go statement are evaluated by AddError.
LogError(w, id, err) ==
    IF err # OneErr(ErrRecordNotFound)
    THEN IF w.h[id].logMode = 0
         THEN [w EXCEPT !.logger.pending = Append(@, LogLine(err))]
         ELSE IF w.h[id].logMode = 2
         THEN [w EXCEPT !.logger.printed = Append(@, LogLine(err))]
         ELSE w
    ELSE w

\* func (s *gormDB) AddError(err error) error, the logging included. The
\* operations of the other areas leave the logger out.
AddErrorLogging(w, id, err) ==
    IF err # NilErr
    THEN [w |-> AddError(LogError(w, id, err), id, err),
          r |-> AddErrorValue(w.h[id], err)]
    ELSE [w |-> w, r |-> err]

\* The background task: s.Print(...) of the line it was given.
PrintTask(w, i) ==
    [w EXCEPT !.logger.pending = RemoveAt(@, i),
              !.logger.printed = Append(@, w.logger.pending[i])]

----------------------------------------------------------------------------
(* Settings and the state of the parent *)

\* Set that changes the receiver's own settings.
SetOpInPlace(w, s, name, value) ==
    [w |-> InstantSet(w, s, name, value), r |-> s]

\* return s.Clone().InstantSet(name, value)
SetOp(w, s, name, value) ==
    LET c == Clone(w, s)
    IN  [w |-> InstantSet(c.w, c.r, name, value), r |-> c.r]

\* value, ok = s.values[name]
Get(d, name) ==
    [value |-> d.values[name], ok |-> d.values[name] # Absent]

\* if enable { s.logMode = 2 } else { s.logMode = 1 }; return s
LogMode(w, s, enable) ==
    [w |-> [w EXCEPT !.h[s].logMode = IF enable THEN 2 ELSE 1], r |-> s]

\* return s.Clone().LogMode(true)
DebugOp(w, s) ==
    LET c == Clone(w, s)
    IN  LogMode(c.w, c.r, TRUE)

\* s.parent.SetIsSingularTable(enable); the reset of the struct cache has
\* no part in the state modelled here.
SingularTableOp(w, s, enable) ==
    [w EXCEPT !.h[w.h[s].parent].singularTable = enable]

----------------------------------------------------------------------------
(* Association *)

\* The fields of the struct type of the values: the primary key `id', the
\* column `name', a relationship with a foreign key and one without.
FieldNames == {"id", "name", "rel", "nofk"}

\* field.Relationship.ForeignFieldNames; NoRelationship for a plain field.
NoRelationship == <<"<none>">>

Relationship(column) ==
    CASE column = "rel" -> <<"id">>
      [] column = "nofk" -> <<>>
      [] OTHER -> NoRelationship

\* &Association{err: err}: bound to no scope and no field.
NoScope == [value |-> NilValue, source |-> Absent]

FailedAssociation(err) ==
    [scope |-> NoScope, column |-> "", field |-> "", err |-> err,
     related |-> {}]

\* The setting that stands for the pointer to the source value.
SourceValue == "<s.value>"

\* Association that marks the source on the receiver itself.
AssociationOpInPlace(w, s, column) ==
    LET st == SetOpInPlace(w, s, "gorm:association:source", SourceValue)
        scope == NewScope(st.w, st.r, w.h[s].value)
        a == FreshId(w.assocs)
        new == IF scope.value.id = 0
               THEN FailedAssociation(OneErr(ErrAssocPrimaryKey))
               ELSE IF column \in FieldNames
               THEN IF \/ Relationship(column) = NoRelationship
                       \/ Len(Relationship(column)) = 0
                    THEN FailedAssociation(OneErr(ErrAssocInvalid))
                    ELSE [scope |-> [value |-> scope.value,
                                     source |-> scope.w.h[scope.db].values[
                                                 "gorm:association:source"]],
                          column |-> column, field |-> column,
                          err |-> NilErr, related |-> {}]
               ELSE FailedAssociation(OneErr(ErrAssocNoColumn))
    IN  [w |-> [scope.w EXCEPT !.assocs = Put(@, a, new)], r |-> a]

\* func (s *gormDB) Association(column string) *Association
AssociationOp(w, s, column) ==
    LET st == SetOp(w, s, "gorm:association:source", SourceValue)
        scope == NewScope(st.w, st.r, w.h[s].value)
        a == FreshId(w.assocs)
        new == IF scope.value.id = 0
               THEN FailedAssociation(OneErr(ErrAssocPrimaryKey))
               ELSE IF column \in FieldNames
               THEN IF \/ Relationship(column) = NoRelationship
                       \/ Len(Relationship(column)) = 0
                    THEN FailedAssociation(OneErr(ErrAssocInvalid))
                    ELSE [scope |-> [value |-> scope.value,
                                     source |-> scope.w.h[scope.db].values[
                                                 "gorm:association:source"]],
                          column |-> column, field |-> column,
                          err |-> NilErr, related |-> {}]
               ELSE FailedAssociation(OneErr(ErrAssocNoColumn))
    IN  [w |-> [scope.w EXCEPT !.assocs = Put(@, a, new)], r |-> a]

\* Append, Replace, Delete, Clear and Count of an Association: each returns
\* at once when the association holds an error; otherwise it acts on the
\* related rows. Count leaves them as they are.
AssociationDo(assoc, op, v) ==
    IF assoc.err # NilErr THEN assoc
    ELSE CASE op = "Append" -> [assoc EXCEPT !.related = @ \cup {v}]
           [] op = "Replace" -> [assoc EXCEPT !.related = {v}]
           [] op = "Delete" -> [assoc EXCEPT !.related = @ \ {v}]
           [] op = "Clear" -> [assoc EXCEPT !.related = {}]
           [] OTHER -> assoc

AssociationCount(assoc) ==
    IF assoc.err # NilErr THEN 0 ELSE Cardinality(assoc.related)

----------------------------------------------------------------------------
(* Schema operations *)

\* scope.createTable(), dropTable(), autoMigrate(), modifyColumn(), ...: one
\* structural statement run against the scope, through no callback chain.
\* The statement is recorded with the unscoped flag of the scope's Search.
Ddl(sc, stmt) ==
    [sc EXCEPT !.w.ddl = Append(@, [stmt |-> stmt,
                                    unscoped |-> sc.w.s[sc.search].unscoped])]

\* db := s.Unscoped(); db = db.NewScope(model).createTable().db
CreateTableOp(w, s, stmt, model) ==
    LET db == CloneApply(w, s, "unscoped", TRUE)
    IN  Result(Ddl(NewScope(db.w, db.r, model), stmt))

\* db := s.Clone(); db = db.NewScope(value).dropTable().db
DropTableOp(w, s, value) ==
    LET db == Clone(w, s)
    IN  Result(Ddl(NewScope(db.w, db.r, value), "DropTable"))

\* A string passed as a value: a table name, told from a struct by its id.
StringValue(name) == [id |-> -2, name |-> name]

IsString(value) == value.id = -2

\* func (s *gormDB) Table(name string) GormDB
TableOp(w, s, name) ==
    LET c == Clone(w, s)
        k == c.w.h[c.r].search
    IN  [w |-> [c.w EXCEPT !.s[k] = SearchApply(@, "Table", name),
                           !.h[c.r].value = NilValue],
         r |-> c.r]

\* scope.dropTable(): the statement, and the error it ends with, if any.
DropTableStmt(sc, err) ==
    LET d == Ddl(sc, "DropTable")
    IN  [d EXCEPT !.w = AddError(@, d.db, err)]

\* What one value of a DropTable call was dropped with: the table override
\* of the working handle, its error before the statement and after it.
Dropped(w, db, before) ==
    [table |-> w.s[w.h[db].search].tableName,
     before |-> before,
     err |-> w.h[db].err]

\* One value of DropTable dropped on the side: the working handle stays the
\* handle it was.
DropValueAside(w, db, value, err) ==
    LET t == IF IsString(value) THEN TableOp(w, db, value.name)
             ELSE [w |-> w, r |-> db]
        sc == NewScope(t.w, t.r, value)
        d == DropTableStmt(sc, err)
    IN  [w |-> d.w, r |-> db, out |-> Dropped(d.w, d.db, sc.w.h[sc.db].err)]

\* One turn of the loop of DropTable:
\* if tableName, ok := value.(string); ok { db = db.Table(tableName) }
\* db = db.NewScope(value).dropTable().db
DropValue(w, db, value, err) ==
    LET t == IF IsString(value) THEN TableOp(w, db, value.name)
             ELSE [w |-> w, r |-> db]
        sc == NewScope(t.w, t.r, value)
        d == DropTableStmt(sc, err)
    IN  [w |-> d.w, r |-> d.db, out |-> Dropped(d.w, d.db, sc.w.h[sc.db].err)]

RECURSIVE DropValues(_, _, _, _, _)
DropValues(w, db, values, errs, seen) ==
    IF values = <<>> THEN [w |-> w, r |-> db, out |-> seen]
    ELSE LET d == DropValue(w, db, Head(values), Head(errs))
         IN  DropValues(d.w, d.r, Tail(values), Tail(errs),
                        Append(seen, d.out))

\* func (s *gormDB) DropTable(values ...interface{}) GormDB
\* db := s.Clone(); for _, value := range values { ... }; return db
\* errs[i] is the error the statement for values[i] ends with, or NilErr.
DropTablesOp(w, s, values, errs) ==
    LET db == Clone(w, s)
    IN  DropValues(db.w, db.r, values, errs, <<>>)

\* scope = s.NewScope(value); has := scope.Dialect().HasTable(tableName);
\* s.AddError(scope.db.Error())
HasTableOp(w, s, value) ==
    LET scope == NewScope(w, s, value)
    IN  AddError(scope.w, s, scope.w.h[scope.db].err)

\* db := s.Clone(); if s.HasTable(value) {
\*     db.AddError(s.DropTable(value).Error()) }
DropTableIfExistsOp(w, s, value, has) ==
    LET db == Clone(w, s)
        h == HasTableOp(db.w, s, value)
        d == DropTableOp(h, s, value)
    IN  IF has
        THEN [w |-> AddError(d.w, db.r, d.w.h[d.r].err), r |-> db.r,
              out |-> NilValue]
        ELSE [w |-> h, r |-> db.r, out |-> NilValue]

\* scope := s.NewScope(s.value); scope.modifyColumn(column, typ)
ColumnOp(w, s, stmt) ==
    Result(Ddl(NewScope(w, s, w.h[s].value), stmt))

\* scope := s.Unscoped().NewScope(s.value); scope.addIndex(...)
AddIndexOp(w, s, stmt) ==
    LET db == CloneApply(w, s, "unscoped", TRUE)
    IN  Result(Ddl(NewScope(db.w, db.r, w.h[s].value), stmt))

\* scope := s.Clone().NewScope(s.value); scope.removeForeignKey(field, dest)
RemoveForeignKeyOp(w, s) ==
    LET db == Clone(w, s)
    IN  Result(Ddl(NewScope(db.w, db.r, w.h[s].value), "RemoveForeignKey"))

SchemaOp(w, s, op, value, has) ==
    CASE op \in {"CreateTable", "AutoMigrate"} -> CreateTableOp(w, s, op, value)
      [] op = "DropTable" -> DropTableOp(w, s, value)
      [] op = "DropTableIfExists" -> DropTableIfExistsOp(w, s, value, has)
      [] op \in {"ModifyColumn", "DropColumn", "RemoveIndex", "AddForeignKey"}
            -> ColumnOp(w, s, op)
      [] op \in {"AddIndex", "AddUniqueIndex"} -> AddIndexOp(w, s, op)
      [] op = "RemoveForeignKey" -> RemoveForeignKeyOp(w, s)

----------------------------------------------------------------------------
(* A chain execution, step by step *)

\* The steps an execution in flight has yet to run, taken from the chain of
\* the registry as it is now instead of the chain it was handed.
RemainingLive(w, r) ==
    LET live == ChainOf(w, r.db, r.kind)
    IN  SubSeq(live, Len(r.ran) + 1, Len(live))

\* The steps an execution in flight has yet to run: the rest of the slice
\* that callCallbacks was handed when the operation started.
Remaining(w, r) == r.funcs

\* s.NewScope(value).callCallbacks(s.parent.Callbacks().creates), up to the
\* first step: the Scope is built and the chain is read, once.
StartOp(w, s, kind, value) ==
    LET sc == NewScope(w, s, value)
        e == FreshId(w.running)
        funcs == ChainOf(sc.w, sc.db, kind)
        r == [recv |-> s, db |-> sc.db, kind |-> kind,
              search |-> sc.w.s[sc.search], value |-> sc.value,
              slice |-> sc.slice, funcs |-> funcs,
              \* history: the order the registry had at the start
              order |-> StepNamesOf(funcs), ran |-> <<>>]
    IN  [w |-> [sc.w EXCEPT !.running = Put(@, e, r)], r |-> sc.db]

\* f(scope), for the next f of the loop.
StepOp(w, e) ==
    LET r == w.running[e]
        k == FreshId(w.s)
        sc == [w |-> [w EXCEPT !.s = Put(@, k, r.search), !.steps = r.ran],
               db |-> r.db, search |-> k, value |-> r.value,
               slice |-> r.slice]
        after == RunStep(sc, Head(Remaining(w, r)), FALSE)
    IN  [after.w EXCEPT
            !.running[e] = [r EXCEPT !.search = after.w.s[k],
                                     !.value = after.value,
                                     !.funcs = Tail(Remaining(w, r)),
                                     !.ran = after.w.steps],
            !.steps = <<>>]

\* The loop is over: the operation returns the Scope's handle.
EndOp(w, e) ==
    LET r == w.running[e]
    IN  [w |-> [w EXCEPT !.running = Restrict(@, DOMAIN w.running \ {e}),
                         !.steps = r.ran, !.chains = <<r.kind>>],
         r |-> r.db, out |-> r.value]

----------------------------------------------------------------------------
(* Transactions *)

\* db, ok := c.SQLCommonDB().(sqlDb); ok && db != nil
\* Only a *sql.DB has Begin.
IsSqlDb(conn) == conn.kind = "sqlDB"

\* The test without the comparison with emptySQLTx.
IsSqlTxNoNilCheck(conn) == conn.kind \in {"sqlTx", "nilTx"}

\* db, ok := s.db.(sqlTx); ok && db != nil && db != emptySQLTx
\* Only a *sql.Tx has Commit and Rollback; the nil *sql.Tx a failed Begin
\* left behind is excluded by the comparison with emptySQLTx.
IsSqlTx(conn) == conn.kind = "sqlTx"

\* (*sql.DB).Begin: a new active transaction, or a nil one and an error.
ConnBegin(w, ok) ==
    LET t == Len(w.tx) + 1
        w1 == [w EXCEPT !.calls = Append(@, "Begin")]
    IN  IF ok
        THEN [w |-> [w1 EXCEPT !.tx = Append(@, "active")],
              tx |-> SqlTx(t), err |-> NilErr]
        ELSE [w |-> w1, tx |-> NilTx, err |-> OneErr(ErrBegin)]

\* (*sql.Tx).Commit and (*sql.Tx).Rollback: the transaction ends; on one that
\* already ended they answer ErrTxDone; on a nil *sql.Tx they panic.
ConnEnd(w, conn, call, state) ==
    LET w1 == [w EXCEPT !.calls = Append(@, call)]
    IN  IF conn.kind # "sqlTx"
        THEN [w |-> [w1 EXCEPT !.panic = TRUE], err |-> NilErr]
        ELSE IF w.tx[conn.id] = "active"
        THEN [w |-> [w1 EXCEPT !.tx[conn.id] = state], err |-> NilErr]
        ELSE [w |-> w1, err |-> OneErr(ErrTxDone)]

\* Begin working on the receiver instead of a clone.
BeginOpInPlace(w, s, ok) ==
    IF IsSqlDb(w.h[s].db)
    THEN LET b == ConnBegin(w, ok)
             w1 == [b.w EXCEPT !.h[s].db = b.tx, !.h[s].dialectDB = b.tx]
         IN  [w |-> AddError(w1, s, b.err), r |-> s]
    ELSE [w |-> AddError(w, s, OneErr(ErrCantStartTransaction)), r |-> s]

\* func (s *gormDB) Begin() GormDB
BeginOp(w, s, ok) ==
    LET c == Clone(w, s)
    IN  IF IsSqlDb(c.w.h[c.r].db)
        THEN LET b == ConnBegin(c.w, ok)
                 w1 == [b.w EXCEPT !.h[c.r].db = b.tx,
                                   !.h[c.r].dialectDB = b.tx]
             IN  [w |-> AddError(w1, c.r, b.err), r |-> c.r]
        ELSE [w |-> AddError(c.w, c.r, OneErr(ErrCantStartTransaction)),
              r |-> c.r]

\* Commit dropping the error of the underlying Commit.
CommitOpDroppingError(w, s) ==
    IF IsSqlTx(w.h[s].db)
    THEN [w |-> ConnEnd(w, w.h[s].db, "Commit", "committed").w, r |-> s]
    ELSE [w |-> AddError(w, s, OneErr(ErrInvalidTransaction)), r |-> s]

\* func (s *gormDB) Commit() GormDB
CommitOp(w, s) ==
    IF IsSqlTx(w.h[s].db)
    THEN LET e == ConnEnd(w, w.h[s].db, "Commit", "committed")
         IN  [w |-> AddError(e.w, s, e.err), r |-> s]
    ELSE [w |-> AddError(w, s, OneErr(ErrInvalidTransaction)), r |-> s]

\* func (s *gormDB) Rollback() GormDB
RollbackOp(w, s) ==
    IF IsSqlTx(w.h[s].db)
    THEN LET e == ConnEnd(w, w.h[s].db, "Rollback", "rolledback")
         IN  [w |-> AddError(e.w, s, e.err), r |-> s]
    ELSE [w |-> AddError(w, s, OneErr(ErrInvalidTransaction)), r |-> s]

Begin(s, ok) ==
    /\ Room
    /\ LET b == BeginOp(World, s, ok)
       IN  Finish(b.w, "Begin", s, b.r, ok, NilValue)

Commit(s) ==
    LET c == CommitOp(World, s)
    IN  Finish(c.w, "Commit", s, c.r, NilValue, NilValue)

Rollback(s) ==
    LET c == RollbackOp(World, s)
    IN  Finish(c.w, "Rollback", s, c.r, NilValue, NilValue)

\* A caller's s.AddError(err).
AddErrorCall(s, err) ==
    Finish(AddError(World, s, err), "AddError", s, s, err, NilValue)

----------------------------------------------------------------------------
(* Terminal operations *)

\* s.NewScope(out) with newScope.Search.Limit(1)
LimitOne(sc) == [sc EXCEPT !.w.s[sc.search] = SearchApply(@, "Limit", 1)]

\* func (s *gormDB) First(out interface{}, where ...interface{}) GormDB
FirstOp(w, s, out, where, fail) ==
    Result(CallCallbacks(
        InlineCondition(
            ScopeSet(LimitOne(NewScope(w, s, out)),
                     "gorm:order_by_primary_key", "ASC"),
            where),
        "queries", fail))

\* func (s *gormDB) Take(out interface{}, where ...interface{}) GormDB
TakeOp(w, s, out, where, fail) ==
    Result(CallCallbacks(
        InlineCondition(LimitOne(NewScope(w, s, out)), where),
        "queries", fail))

\* func (s *gormDB) Last(out interface{}, where ...interface{}) GormDB
LastOp(w, s, out, where, fail) ==
    Result(CallCallbacks(
        InlineCondition(
            ScopeSet(LimitOne(NewScope(w, s, out)),
                     "gorm:order_by_primary_key", "DESC"),
            where),
        "queries", fail))

\* func (s *gormDB) Find(out interface{}, where ...interface{}) GormDB
\* out is a slice.
FindOp(w, s, where, fail) ==
    Result(CallCallbacks(
        InlineCondition([NewScope(w, s, BlankStruct) EXCEPT !.slice = TRUE],
                        where),
        "queries", fail))

\* func (s *gormDB) Scan(dest interface{}) GormDB
ScanOp(w, s, fail) ==
    Result(CallCallbacks(
        ScopeSet(NewScope(w, s, w.h[s].value),
                 "gorm:query_destination", "dest"),
        "queries", fail))

\* FirstOrInit initializing whatever error the lookup reported.
FirstOrInitOpAnyError(w, s, out, where, fail) ==
    LET c == Clone(w, s)
        result == FirstOp(c.w, c.r, out, where, fail)
        lookup == result.w.h[result.r].err
    IN  IF result.w.h[result.r].err # NilErr
        THEN LET sc == Initialize(InlineCondition(
                           NewScope(result.w, c.r, result.out), where))
             IN  [w |-> sc.w, r |-> c.r, out |-> sc.value,
                  lookup |-> lookup]
        ELSE LET sc == NewScope(result.w, c.r, result.out)
                 assign == sc.w.s[sc.w.h[c.r].search].assignAttrs
             IN  [w |-> sc.w, r |-> c.r,
                  out |-> UpdatedAttrs(sc.value, assign),
                  lookup |-> lookup]

\* FirstOrInit running the create chain on the value it initialized.
FirstOrInitOpCreating(w, s, out, where, fail) ==
    LET c == Clone(w, s)
        result == FirstOp(c.w, c.r, out, where, fail)
        lookup == result.w.h[result.r].err
    IN  IF result.w.h[result.r].err # NilErr
        THEN IF ~RecordNotFound(result.w.h[result.r])
             THEN [w |-> result.w, r |-> result.r, out |-> result.out,
                   lookup |-> lookup]
             ELSE LET sc == CallCallbacks(
                               Initialize(InlineCondition(
                                   NewScope(result.w, c.r, result.out),
                                   where)),
                               "creates", FALSE)
                  IN  [w |-> sc.w, r |-> c.r, out |-> sc.value,
                       lookup |-> lookup]
        ELSE LET sc == NewScope(result.w, c.r, result.out)
                 assign == sc.w.s[sc.w.h[c.r].search].assignAttrs
             IN  [w |-> sc.w, r |-> c.r,
                  out |-> UpdatedAttrs(sc.value, assign),
                  lookup |-> lookup]

\* FirstOrInit that applies the Attrs values to a record it found, too.
FirstOrInitOpAttrsWhenFound(w, s, out, where, fail) ==
    LET c == Clone(w, s)
        result == FirstOp(c.w, c.r, out, where, fail)
        lookup == result.w.h[result.r].err
    IN  IF result.w.h[result.r].err # NilErr
        THEN IF ~RecordNotFound(result.w.h[result.r])
             THEN [w |-> result.w, r |-> result.r, out |-> result.out,
                   lookup |-> lookup]
             ELSE LET sc == Initialize(InlineCondition(
                                NewScope(result.w, c.r, result.out), where))
                  IN  [w |-> sc.w, r |-> c.r, out |-> sc.value,
                       lookup |-> lookup]
        ELSE LET sc == NewScope(result.w, c.r, result.out)
                 assign == sc.w.s[sc.w.h[c.r].search].assignAttrs
             IN  [w |-> sc.w, r |-> c.r,
                  out |-> UpdatedAttrs(
                             UpdatedAttrs(sc.value,
                                 sc.w.s[sc.w.h[c.r].search].initAttrs),
                             assign),
                  lookup |-> lookup]

\* func (s *gormDB) FirstOrInit(out interface{}, where ...interface{}) GormDB
FirstOrInitOp(w, s, out, where, fail) ==
    LET c == Clone(w, s)
        result == FirstOp(c.w, c.r, out, where, fail)
        lookup == result.w.h[result.r].err
    IN  IF result.w.h[result.r].err # NilErr
        THEN IF ~RecordNotFound(result.w.h[result.r])
             THEN [w |-> result.w, r |-> result.r, out |-> result.out,
                   lookup |-> lookup]
             ELSE LET sc == Initialize(InlineCondition(
                                NewScope(result.w, c.r, result.out), where))
                  IN  [w |-> sc.w, r |-> c.r, out |-> sc.value,
                       lookup |-> lookup]
        ELSE LET sc == NewScope(result.w, c.r, result.out)
                 assign == sc.w.s[sc.w.h[c.r].search].assignAttrs
             IN  [w |-> sc.w, r |-> c.r,
                  out |-> UpdatedAttrs(sc.value, assign),
                  lookup |-> lookup]

\* FirstOrCreate running the create chain whether or not a row was found.
FirstOrCreateOpAlways(w, s, out, where, fail, cfail) ==
    LET c == Clone(w, s)
        result == FirstOp(c.w, s, out, where, fail)
        lookup == result.w.h[result.r].err
        res == Result(CallCallbacks(
                   Initialize(InlineCondition(
                       NewScope(result.w, c.r, BlankStruct), where)),
                   "creates", cfail))
    IN  IF result.w.h[result.r].err # NilErr
           /\ ~RecordNotFound(result.w.h[result.r])
        THEN [w |-> result.w, r |-> result.r, out |-> result.out,
              lookup |-> lookup]
        ELSE [w |-> res.w, r |-> res.r, out |-> res.out, lookup |-> lookup]

\* FirstOrCreate running the create chain on the handle its lookup returned.
FirstOrCreateOpOnLookup(w, s, out, where, fail, cfail) ==
    LET c == Clone(w, s)
        result == FirstOp(c.w, s, out, where, fail)
        assign == result.w.s[result.w.h[c.r].search].assignAttrs
        lookup == result.w.h[result.r].err
        with(res) == [w |-> res.w, r |-> res.r, out |-> res.out,
                      lookup |-> lookup]
    IN  IF result.w.h[result.r].err # NilErr
        THEN IF ~RecordNotFound(result.w.h[result.r])
             THEN with(result)
             ELSE with(Result(CallCallbacks(
                      Initialize(InlineCondition(
                          NewScope(result.w, result.r, result.out), where)),
                      "creates", cfail)))
        ELSE IF assign # ""
        THEN with(Result(CallCallbacks(
                 ScopeInstanceSet(NewScope(result.w, c.r, result.out),
                                  "gorm:update_interface", assign),
                 "updates", FALSE)))
        ELSE [w |-> result.w, r |-> c.r, out |-> result.out,
              lookup |-> lookup]

\* func (s *gormDB) FirstOrCreate(out interface{}, where ...interface{}) GormDB
FirstOrCreateOp(w, s, out, where, fail, cfail) ==
    LET c == Clone(w, s)
        result == FirstOp(c.w, s, out, where, fail)
        assign == result.w.s[result.w.h[c.r].search].assignAttrs
        lookup == result.w.h[result.r].err
        with(res) == [w |-> res.w, r |-> res.r, out |-> res.out,
                      lookup |-> lookup]
    IN  IF result.w.h[result.r].err # NilErr
        THEN IF ~RecordNotFound(result.w.h[result.r])
             THEN with(result)
             ELSE with(Result(CallCallbacks(
                      Initialize(InlineCondition(
                          NewScope(result.w, c.r, result.out), where)),
                      "creates", cfail)))
        ELSE IF assign # ""
        THEN with(Result(CallCallbacks(
                 ScopeInstanceSet(NewScope(result.w, c.r, result.out),
                                  "gorm:update_interface", assign),
                 "updates", FALSE)))
        ELSE [w |-> result.w, r |-> c.r, out |-> result.out,
              lookup |-> lookup]

\* func (s *gormDB) Updates(values interface{}, ignoreProtectedAttrs ...bool) GormDB
UpdatesOp(w, s, values, ignoreProtectedAttrs) ==
    Result(CallCallbacks(
        ScopeInstanceSet(
            ScopeSet(NewScope(w, s, w.h[s].value),
                     "gorm:ignore_protected_attrs",
                     IF ignoreProtectedAttrs THEN "true" ELSE "false"),
            "gorm:update_interface", values),
        "updates", FALSE))

\* func (s *gormDB) Update(attrs ...interface{}) GormDB
UpdateOp(w, s, attrs) == UpdatesOp(w, s, attrs, TRUE)

\* func (s *gormDB) UpdateColumns(values interface{}) GormDB
UpdateColumnsOp(w, s, values) ==
    Result(CallCallbacks(
        ScopeInstanceSet(
            ScopeSet(ScopeSet(NewScope(w, s, w.h[s].value),
                              "gorm:update_column", "true"),
                     "gorm:save_associations", "false"),
            "gorm:update_interface", values),
        "updates", FALSE))

\* func (s *gormDB) UpdateColumn(attrs ...interface{}) GormDB
UpdateColumnOp(w, s, attrs) == UpdateColumnsOp(w, s, attrs)

\* Scope.PrimaryKeyZero
PrimaryKeyZero(value) == value.id <= 0

\* Save falling back to FirstOrCreate whenever the update affected no row,
\* an update that failed included.
SaveOpIgnoringError(w, s, value, ufail, fail, cfail) ==
    LET scope == NewScope(w, s, value)
    IN  IF ~PrimaryKeyZero(scope.value)
        THEN LET newDB == Result(CallCallbacks(scope, "updates", ufail))
                 n == NewOp(newDB.w, s)
             IN  IF newDB.w.h[newDB.r].rowsAffected = 0
                 THEN FirstOrCreateOp(n.w, n.r, value, "", fail, cfail)
                 ELSE newDB
        ELSE Result(CallCallbacks(scope, "creates", cfail))

\* func (s *gormDB) Save(value interface{}) GormDB
\* ufail, fail, cfail: the update, the lookup, the insert fails underneath.
SaveOp(w, s, value, ufail, fail, cfail) ==
    LET scope == NewScope(w, s, value)
    IN  IF ~PrimaryKeyZero(scope.value)
        THEN LET newDB == Result(CallCallbacks(scope, "updates", ufail))
                 n == NewOp(newDB.w, s)
             IN  IF newDB.w.h[newDB.r].err = NilErr
                    /\ newDB.w.h[newDB.r].rowsAffected = 0
                 THEN FirstOrCreateOp(n.w, n.r, value, "", fail, cfail)
                 ELSE newDB
        ELSE Result(CallCallbacks(scope, "creates", cfail))

\* func (s *gormDB) Create(value interface{}) GormDB
CreateOp(w, s, value, cfail) ==
    Result(CallCallbacks(NewScope(w, s, value), "creates", cfail))

\* func (s *gormDB) Delete(value interface{}, where ...interface{}) GormDB
DeleteOp(w, s, value, where) ==
    Result(CallCallbacks(InlineCondition(NewScope(w, s, value), where),
                         "deletes", FALSE))

Done(op, s, arg, res) == Room /\ Finish(res.w, op, s, res.r, arg, res.out)

First(s, where, fail) ==
    Done("First", s, where, FirstOp(World, s, BlankStruct, where, fail))

Take(s, where, fail) ==
    Done("Take", s, where, TakeOp(World, s, BlankStruct, where, fail))

Last(s, where, fail) ==
    Done("Last", s, where, LastOp(World, s, BlankStruct, where, fail))

Find(s, where, fail) == Done("Find", s, where, FindOp(World, s, where, fail))

Scan(s, fail) == Done("Scan", s, NilValue, ScanOp(World, s, fail))

\* History entry of a FirstOrInit / FirstOrCreate call.
Entry(op, s, where, fail, cfail, res) ==
    [op |-> op, recv |-> s, where |-> where, fail |-> fail, cfail |-> cfail,
     recvErr |-> handles[s].err,
     conds |-> ObservedConds(handles, searches, s),
     rowsBefore |-> rows, rowsAfter |-> res.w.rows,
     chains |-> res.w.chains, lookup |-> res.lookup,
     ret |-> res.r, retErr |-> res.w.h[res.r].err, out |-> res.out]

FirstOr(op, s, where, fail, cfail, res) ==
    /\ Room
    /\ Return(res.w, op, s, res.r, where, res.out)
    /\ log' = Append(log, Entry(op, s, where, fail, cfail, res))

FirstOrInit(s, where, fail) ==
    FirstOr("FirstOrInit", s, where, fail, FALSE,
            FirstOrInitOp(World, s, BlankStruct, where, fail))

FirstOrCreate(s, where, fail, cfail) ==
    FirstOr("FirstOrCreate", s, where, fail, cfail,
            FirstOrCreateOp(World, s, BlankStruct, where, fail, cfail))

Update(s, attrs) == Done("Update", s, attrs, UpdateOp(World, s, attrs))

Updates(s, values) ==
    Done("Updates", s, values, UpdatesOp(World, s, values, FALSE))

UpdateColumn(s, attrs) ==
    Done("UpdateColumn", s, attrs, UpdateColumnOp(World, s, attrs))

UpdateColumns(s, values) ==
    Done("UpdateColumns", s, values, UpdateColumnsOp(World, s, values))

Save(s, value, ufail, fail, cfail) ==
    Done("Save", s, [value |-> value, ufail |-> ufail],
         SaveOp(World, s, value, ufail, fail, cfail))

Create(s, value, cfail) ==
    Done("Create", s, value, CreateOp(World, s, value, cfail))

Delete(s, value, where) ==
    Done("Delete", s, value, DeleteOp(World, s, value, where))

\* The handles that are their own parent.
Roots == {h \in DOMAIN handles : handles[h].parent = h}

\* The caller lets go of a handle that is not a root.
Drop(h) ==
    /\ h \notin Roots
    /\ LET w == [World EXCEPT !.h = Restrict(@, DOMAIN handles \ {h})]
       IN  Finish(w, "Drop", h, NilPtr, NilValue, NilValue)

\* The caller's s.Callback(): it now holds the registry returned.
CallbackCall(s) ==
    LET c == CallbackOp(World, s)
    IN  Finish(c.w, "Callback", s, s, NilValue, c.r)

\* The registries some root has as its registry.
Installed == {handles[h].callbacks : h \in Roots}

\* The caller lets go of a registry that no root has any more.
Forget(r) ==
    /\ r \in DOMAIN registries \ (Installed \cup {DefaultCallback})
    /\ LET w == [World EXCEPT !.regs = Restrict(@, DOMAIN registries \ {r})]
       IN  Finish(w, "Forget", NilPtr, NilPtr, NilValue, r)

\* The caller's registration on a registry it got from Callback().
Registration(r, kind, how, at, st) ==
    /\ r \in DOMAIN registries \ {DefaultCallback}
    /\ LET w == [World EXCEPT !.regs[r][kind] = Registered(@, how, at, st)]
       IN  Finish(w, how, NilPtr, NilPtr,
                  [reg |-> r, kind |-> kind, at |-> at, step |-> st],
                  NilValue)

\* The values a caller passes to Create, Save, Delete and Model.
Set(s, name, value) ==
    LET c == SetOp(World, s, name, value)
    IN  /\ c.r \in DOMAIN handles \/ Room
        /\ Finish(c.w, "Set", s, c.r, [name |-> name, value |-> value],
                  NilValue)

InstantSetCall(s, name, value) ==
    Finish(InstantSet(World, s, name, value), "InstantSet", s, s,
           [name |-> name, value |-> value], NilValue)

GetCall(s, name) ==
    Finish(World, "Get", s, s, [name |-> name], Get(handles[s], name))

Debug(s) ==
    /\ Room
    /\ LET c == DebugOp(World, s)
       IN  Finish(c.w, "Debug", s, c.r, NilValue, NilValue)

SingularTable(s, enable) ==
    Finish(SingularTableOp(World, s, enable), "SingularTable", s, s,
           enable, NilValue)

\* The value is a struct: Model(&v) came before.
Association(s, column) ==
    /\ handles[s].value # NilValue
    /\ Cardinality(DOMAIN assocs) < MaxAssocs
    /\ LET a == AssociationOp(World, s, column)
       IN  Finish(a.w, "Association", s, NilPtr, column, a.r)

AssociationCall(a, op, v) ==
    LET w == [World EXCEPT !.assocs[a] = AssociationDo(@, op, v)]
    IN  Finish(w, op, NilPtr, NilPtr, [assoc |-> a, value |-> v],
               AssociationCount(w.assocs[a]))

Schema(s, op, value, has) ==
    Done(op, s, value, SchemaOp(World, s, op, value, has))

\* The caller's s.DropTable(values...).
DropTables(s, values, errs) ==
    Done("DropTable", s, [values |-> values, errs |-> errs],
         DropTablesOp(World, s, values, errs))

StartCreate(s, value) ==
    /\ Room
    /\ Cardinality(DOMAIN running) < MaxRunning
    /\ LET st == StartOp(World, s, "creates", value)
       IN  Finish(st.w, "Start", s, st.r, value, NilValue)

StepCreate(e) ==
    /\ Remaining(World, running[e]) # <<>>
    /\ Finish(StepOp(World, e), "Step", running[e].recv, running[e].db,
              e, NilValue)

EndCreate(e) ==
    /\ Remaining(World, running[e]) = <<>>
    /\ LET res == EndOp(World, e)
       IN  Finish(res.w, "Create", running[e].recv, res.r, e, res.out)

AddErrorLoggingCall(s, err) ==
    LET a == AddErrorLogging(World, s, err)
    IN  Finish(a.w, "AddError", s, s, err, a.r)

LogModeCall(s, enable) ==
    Finish(LogMode(World, s, enable).w, "LogMode", s, s, enable, NilValue)

LogTask(i) ==
    Finish(PrintTask(World, i), "LogTask", NilPtr, NilPtr, i, NilValue)

Values == {Struct(0, "a"), Struct(1, "b")}

Wheres == {"", "a"}

\* Every terminal operation, on handles with or without conditions and a
\* model value.
NextCrud ==
    \/ \E s \in DOMAIN handles : Where(s, "a")
    \/ \E s \in DOMAIN handles : Assign(s, "b")
    \/ \E s \in DOMAIN handles : Model(s, Struct(1, "b"))
    \/ \E s \in DOMAIN handles, q \in Wheres, f \in BOOLEAN : First(s, q, f)
    \/ \E s \in DOMAIN handles : Take(s, "", FALSE)
    \/ \E s \in DOMAIN handles : Last(s, "", FALSE)
    \/ \E s \in DOMAIN handles, q \in Wheres : Find(s, q, FALSE)
    \/ \E s \in DOMAIN handles : Scan(s, FALSE)
    \/ \E s \in DOMAIN handles, f \in BOOLEAN : FirstOrInit(s, "a", f)
    \/ \E s \in DOMAIN handles, cf \in BOOLEAN :
           FirstOrCreate(s, "a", FALSE, cf)
    \/ \E s \in DOMAIN handles : Update(s, "b")
    \/ \E s \in DOMAIN handles : Updates(s, "b")
    \/ \E s \in DOMAIN handles : UpdateColumn(s, "b")
    \/ \E s \in DOMAIN handles : UpdateColumns(s, "b")
    \/ \E s \in DOMAIN handles, v \in Values, uf \in BOOLEAN :
           Save(s, v, uf, FALSE, FALSE)
    \/ \E s \in DOMAIN handles, v \in Values, cf \in BOOLEAN :
           Create(s, v, cf)
    \/ \E s \in DOMAIN handles, v \in Values : Delete(s, v, "")

SpecCrud == Init /\ [][NextCrud]_vars

\* Lookups with fallback: conditions, Attrs and Assign, lookups that may fail,
\* inserts that may fail, and errors the caller adds to the handle it was
\* returned last. Nothing deletes or rewrites rows except FirstOrCreate.
NextFirstOr ==
    \/ \E s \in DOMAIN handles, q \in Names : Where(s, q)
    \/ \E s \in DOMAIN handles, v \in Names : Attrs(s, v)
    \/ \E s \in DOMAIN handles, v \in Names : Assign(s, v)
    \/ \E s \in DOMAIN handles, f \in BOOLEAN : First(s, "", f)
    \/ AddErrorCall(last.ret, OneErr("e1"))
    \/ \E s \in DOMAIN handles, q \in Wheres, f \in BOOLEAN :
           FirstOrInit(s, q, f)
    \/ \E s \in DOMAIN handles, q \in Wheres, f, cf \in BOOLEAN :
           FirstOrCreate(s, q, f, cf)

SpecFirstOr == Init /\ [][NextFirstOr]_vars

----------------------------------------------------------------------------
(* Specifications: the caller's calls, by area *)

ErrInputs ==
    {NilErr, OneErr("e1"), OneErr("e2"), OneErr(ErrRecordNotFound)}

ErrRoom == Cardinality(DOMAIN handles) < MaxErrHandles

\* The caller adds errors to the handle it was returned last, derives
\* handles from any handle it holds, and looks a row up in the empty table.
NextErr ==
    \/ \E e \in ErrInputs : AddErrorCall(last.ret, e)
    \/ \E s \in DOMAIN handles : ErrRoom /\ Where(s, "a")
    \/ \E s \in DOMAIN handles : ErrRoom /\ First(s, "", FALSE)

SpecErr == Init /\ [][NextErr]_vars

NextTx ==
    \/ \E s \in DOMAIN handles, ok \in BOOLEAN : Begin(s, ok)
    \/ \E s \in DOMAIN handles : Commit(s)
    \/ \E s \in DOMAIN handles : Rollback(s)
    \/ \E s \in DOMAIN handles : Where(s, "a")
    \/ \E s \in DOMAIN handles : New(s)

SpecTx == Init /\ [][NextTx]_vars


Limits == {1, 5}

NextBuild ==
    \/ \E s \in DOMAIN handles, q \in Names : Where(s, q)
    \/ \E s \in DOMAIN handles : Or(s, "a")
    \/ \E s \in DOMAIN handles : Not(s, "a")
    \/ \E s \in DOMAIN handles, n \in Limits : Limit(s, n)
    \/ \E s \in DOMAIN handles : Offset(s, 1)
    \/ \E s \in DOMAIN handles, r \in BOOLEAN : Order(s, "a", r)
    \/ \E s \in DOMAIN handles : Select(s, "a")
    \/ \E s \in DOMAIN handles : Omit(s, "a")
    \/ \E s \in DOMAIN handles : Group(s, "a")
    \/ \E s \in DOMAIN handles : Having(s, "a")
    \/ \E s \in DOMAIN handles : Joins(s, "a")
    \/ \E s \in DOMAIN handles : Unscoped(s)
    \/ \E s \in DOMAIN handles, v \in Names : Attrs(s, v)
    \/ \E s \in DOMAIN handles, v \in Names : Assign(s, v)
    \/ \E s \in DOMAIN handles : Preload(s, "a")
    \/ \E s \in DOMAIN handles : Raw(s, "a")
    \/ \E s \in DOMAIN handles, n \in Names : Table(s, n)
    \/ \E s \in DOMAIN handles : Model(s, BlankStruct)
    \/ \E s \in DOMAIN handles : New(s)

SpecBuild == Init /\ [][NextBuild]_vars

\* What a caller registers: steps of its own that only run ("hook"),
\* record an error, or record the record-not-found sentinel.
RegCall(how, at, st) == [how |-> how, at |-> at, st |-> st]

RegCalls ==
    {RegCall("Before", "gorm:create", Step("x", "fail")),
     RegCall("After", "gorm:create", Step("y", "notfound")),
     RegCall("Before", "x", Step("y", "notfound")),
     RegCall("Remove", "", Step("x", "fail"))}

\* Customized create chains: the caller keeps the registry of its latest
\* Callback() only and changes it, creates through the handles and lets go
\* of the handles returned.
NextReg ==
    \/ \E s \in DOMAIN handles :
           /\ DOMAIN registries \subseteq Installed \cup {DefaultCallback}
           /\ CallbackCall(s)
    \/ \E r \in DOMAIN registries : Forget(r)
    \/ \E r \in Installed, c \in RegCalls :
           Registration(r, "creates", c.how, c.at, c.st)
    \/ \E s \in DOMAIN handles : ErrRoom /\ Create(s, Struct(1, "a"), FALSE)
    \/ \E h \in DOMAIN handles : Drop(h)

SpecReg == Init /\ [][NextReg]_vars

\* Two roots, each opened on a connection of its own.
InitRoots ==
    /\ handles = (1 :> Open(SqlDB)) @@ (2 :> [Open(SqlDB) EXCEPT !.parent = 2])
    /\ searches = << >>
    /\ txs = <<>>
    /\ rows = {}
    /\ last = NoOp
    /\ added = (1 :> <<>>) @@ (2 :> <<>>)
    /\ log = <<>>
    /\ registries = (DefaultCallback :> DefaultRegistry)
    /\ assocs = << >>
    /\ running = << >>
    /\ logger = [pending |-> <<>>, printed |-> <<>>]

\* Handles derived from two roots by the chain methods, and the state of
\* the parent changed through any of them. The caller keeps the registry of
\* its latest Callback() only.
NextParent ==
    \/ \E s \in DOMAIN handles : Where(s, "a")
    \/ \E s \in DOMAIN handles : Model(s, BlankStruct)
    \/ \E s \in DOMAIN handles : Table(s, "a")
    \/ \E s \in DOMAIN handles : New(s)
    \/ \E s \in DOMAIN handles : Set(s, "k", "v")
    \/ \E s \in DOMAIN handles : Debug(s)
    \/ \E s \in DOMAIN handles : Begin(s, TRUE)
    \/ \E s \in DOMAIN handles : First(s, "", FALSE)
    \/ \E s \in DOMAIN handles, b \in BOOLEAN : SingularTable(s, b)
    \/ \E s \in DOMAIN handles :
           /\ DOMAIN registries \subseteq Installed \cup {DefaultCallback}
           /\ CallbackCall(s)
    \/ \E r \in DOMAIN registries : Forget(r)

SpecParent == InitRoots /\ [][NextParent]_vars

RootRegCalls ==
    {RegCall("Register", "", Step("x", "hook")),
     RegCall("Replace", "", Step("x", "fail")),
     RegCall("Remove", "", Step("x", "hook"))}

\* Two roots whose registries are customized: Callback() through any handle,
\* registrations on any registry a Callback() returned, the latest or an
\* earlier one, and creates through the handles.
NextRoots ==
    \/ \E s \in DOMAIN handles :
           /\ Cardinality(DOMAIN registries) < MaxRegistries
           /\ CallbackCall(s)
    \/ \E r \in DOMAIN registries, c \in RootRegCalls :
           Registration(r, "creates", c.how, c.at, c.st)
    \/ \E s \in DOMAIN handles : Create(s, Struct(1, "a"), FALSE)

SpecRoots == InitRoots /\ [][NextRoots]_vars

AssociationOps == {"Append", "Replace", "Delete", "Clear", "Count"}

\* Associations of the values handles are given by Model, and the
\* operations on them.
NextAssoc ==
    \/ \E s \in DOMAIN handles, id \in {0, 1} : Model(s, Struct(id, "a"))
    \/ \E s \in DOMAIN handles, column \in {"name", "rel", "nofk", "zz"} :
           Association(s, column)
    \/ \E a \in DOMAIN assocs, op \in AssociationOps :
           AssociationCall(a, op, "b")

SpecAssoc == Init /\ [][NextAssoc]_vars

SchemaOps ==
    {"CreateTable", "DropTable", "DropTableIfExists", "AutoMigrate",
     "ModifyColumn", "DropColumn", "AddIndex", "AddUniqueIndex",
     "RemoveIndex", "AddForeignKey", "RemoveForeignKey"}

\* Schema operations through handles with and without the unscoped flag.
NextSchema ==
    \/ \E s \in DOMAIN handles : Unscoped(s)
    \/ \E s \in DOMAIN handles : Model(s, Struct(1, "a"))
    \/ \E s \in DOMAIN handles, op \in SchemaOps, has \in BOOLEAN :
           Schema(s, op, Struct(1, "a"), has)

SpecSchema == Init /\ [][NextSchema]_vars

SettingValues == {"v", "w"}

\* Settings set through Set and InstantSet, read through Get, on handles
\* and their clones.
NextSettings ==
    \/ \E s \in DOMAIN handles, n \in SettingNames, v \in SettingValues :
           Set(s, n, v)
    \/ \E s \in DOMAIN handles, n \in SettingNames, v \in SettingValues :
           InstantSetCall(s, n, v)
    \/ \E s \in DOMAIN handles, n \in SettingNames : GetCall(s, n)
    \/ \E s \in DOMAIN handles : Where(s, "a")
    \/ \E s \in DOMAIN handles : New(s)

SpecSettings == Init /\ [][NextSettings]_vars

\* The table holds one row when the caller starts.
InitStored ==
    /\ \E conn \in {SqlDB, PlainConn} : handles = (1 :> Open(conn))
    /\ searches = << >>
    /\ txs = <<>>
    /\ rows = {Struct(1, "a")}
    /\ last = NoOp
    /\ added = (1 :> <<>>)
    /\ log = <<>>
    /\ registries = (DefaultCallback :> DefaultRegistry)
    /\ assocs = << >>
    /\ running = << >>
    /\ logger = [pending |-> <<>>, printed |-> <<>>]

\* FirstOrInit and FirstOrCreate with Attrs and Assign values, for
\* conditions that the stored row matches and for conditions it does not.
NextAttrs ==
    \/ \E s \in DOMAIN handles : Where(s, "b")
    \/ \E s \in DOMAIN handles, v \in Names : Attrs(s, v)
    \/ \E s \in DOMAIN handles, v \in Names : Assign(s, v)
    \/ \E s \in DOMAIN handles, q \in Wheres : FirstOrInit(s, q, FALSE)
    \/ \E s \in DOMAIN handles, q \in Wheres, cf \in BOOLEAN :
           FirstOrCreate(s, q, FALSE, cf)

SpecAttrs == InitStored /\ [][NextAttrs]_vars

ConcRegCalls ==
    {RegCall("Before", "gorm:create", Step("x", "hook")),
     RegCall("Remove", "", Step("x", "hook"))}

\* Creates that run step by step while the registry of their root is
\* replaced by Callback() and changed by registrations.
NextConc ==
    \/ \E s \in Roots :
           /\ DOMAIN registries \subseteq Installed \cup {DefaultCallback}
           /\ CallbackCall(s)
    \/ \E r \in DOMAIN registries : Forget(r)
    \/ \E r \in Installed, c \in ConcRegCalls :
           Registration(r, "creates", c.how, c.at, c.st)
    \/ \E s \in Roots : StartCreate(s, Struct(1, "a"))
    \/ \E e \in DOMAIN running : StepCreate(e)
    \/ \E e \in DOMAIN running : EndCreate(e)

SpecConc == Init /\ [][NextConc]_vars

\* Errors added in each log mode while the log tasks run in the background.
NextLog ==
    \/ \E s \in DOMAIN handles, b \in BOOLEAN : LogModeCall(s, b)
    \/ \E s \in DOMAIN handles,
          e \in {NilErr, OneErr("e1"), OneErr("e2"), OneErr(ErrRecordNotFound)} :
           /\ Len(logger.pending) + Len(logger.printed) < MaxLines
           /\ AddErrorLoggingCall(s, e)
    \/ \E i \in 1..Len(logger.pending) : LogTask(i)

SpecLog == Init /\ [][NextLog]_vars

\* A chain that starts from a handle holding an error: the caller adds an
\* error, derives handles, and creates through them, on the default create
\* chain or on one with a step of its own that records the sentinel.
StickyRegCalls ==
    {RegCall("After", "gorm:create", Step("y", "notfound")),
     RegCall("Remove", "", Step("y", "notfound"))}

NextSticky ==
    \/ \E s \in DOMAIN handles :
           /\ DOMAIN registries \subseteq Installed \cup {DefaultCallback}
           /\ CallbackCall(s)
    \/ \E r \in DOMAIN registries : Forget(r)
    \/ \E r \in Installed, c \in StickyRegCalls :
           Registration(r, "creates", c.how, c.at, c.st)
    \/ \E s \in DOMAIN handles :
           /\ handles[s].err = NilErr
           /\ AddErrorCall(s, OneErr("e1"))
    \/ \E s \in DOMAIN handles : Where(s, "a")
    \/ \E s \in DOMAIN handles : New(s)
    \/ \E s \in DOMAIN handles : Create(s, Struct(1, "a"), FALSE)

SpecSticky == Init /\ [][NextSticky]_vars

\* The values of a DropTable call: table names and a struct.
DropValueSet == {StringValue("t1"), StringValue("t2"), Struct(1, "a")}

\* The error the statement for the i-th value of a call ends with when it
\* fails.
DropErrNames == <<"d1", "d2", "d3">>

DropErrors(n) ==
    {es \in [1..n -> {NilErr} \cup {OneErr(DropErrNames[i]) : i \in 1..n}] :
        \A i \in 1..n : es[i] \in {NilErr, OneErr(DropErrNames[i])}}

SeqsOf(S, n) == UNION {[1..k -> S] : k \in 0..n}

\* One DropTable call with up to MaxDrops values: through the root, through
\* a handle with a table override, or through one with a table override
\* and an error.
NextDrop ==
    \/ \E s \in Roots : DOMAIN handles = Roots /\ Table(s, "t0")
    \/ \E s \in DOMAIN handles \ Roots :
           /\ last.op = "Table"
           /\ AddErrorCall(s, OneErr("e1"))
    \/ \E s \in DOMAIN handles, vs \in SeqsOf(DropValueSet, MaxDrops) :
           \E es \in DropErrors(Len(vs)) :
               /\ last.op # "DropTable"
               /\ DOMAIN handles \subseteq Roots \cup {s}
               /\ DropTables(s, vs, es)

SpecDrop == Init /\ [][NextDrop]_vars

----------------------------------------------------------------------------
(* Claims *)

BuilderOps ==
    {"Where", "Or", "Not", "Limit", "Offset", "Order", "Reorder", "Select",
     "Omit", "Group", "Having", "Joins", "Preload", "Attrs", "Assign",
     "unscoped", "Table", "Raw"}

Has(d, e) == SeqContains(GetErrors(d), e)

\* C1. Clone isolation: a condition-building call (any call of the builder)
\* leaves every handle the caller already holds with the Search it had and
\* with the condition set it had; only the returned handle carries the change.
C1_CloneIsolation ==
    [][\A h \in DOMAIN handles :
          /\ h \in DOMAIN handles'
          /\ handles'[h].search = handles[h].search
          /\ ObservedConds(handles', searches', h)
                 = ObservedConds(handles, searches, h)]_vars

\* A builder call was made through a handle that holds conditions of its own
\* and returned a handle whose conditions differ from the receiver's.
C1_Witness ==
    /\ last.op \in BuilderOps
    /\ handles[last.recv].search # NilPtr
    /\ Len(searches[handles[last.recv].search].conds) > 0
    /\ ObservedConds(handles, searches, last.ret)
           # ObservedConds(handles, searches, last.recv)

\* A connection that is a transaction to commit or roll back.
HoldsTransaction(conn) == conn.kind = "sqlTx"

EndOps == {"Commit", "Rollback"}

\* C3. Transaction guard: Commit or Rollback on a handle whose connection is
\* not a transaction (never begun, or the nil transaction of a failed Begin)
\* returns the receiver with the invalid-transaction error among its errors,
\* calls nothing on the underlying connection, leaves every transaction as it
\* was, and does not panic.
C3_TransactionGuard ==
    [][(last'.op \in EndOps /\ ~HoldsTransaction(handles[last'.recv].db)) =>
          /\ last'.ret = last'.recv
          /\ Has(handles'[last'.recv], ErrInvalidTransaction)
          /\ last'.calls = <<>>
          /\ txs' = txs
          /\ ~last'.panic]_vars

\* Commit or Rollback was called on the handle a failed Begin returned.
C3_Witness ==
    /\ last.op \in EndOps
    /\ handles[last.recv].db = NilTx
    /\ Has(handles[last.recv], ErrInvalidTransaction)
    /\ last.calls = <<>>

Ended(conn) == HoldsTransaction(conn) /\ txs[conn.id] # "active"

C5_Begin ==
    [][last'.op = "Begin" =>
          LET s == last'.recv
              r == last'.ret
          IN  /\ r \notin DOMAIN handles
              /\ handles'[s] = handles[s]
              /\ handles'[r].dialectDB = handles'[r].db
              /\ IF handles[s].db.kind = "sqlDB"
                 THEN /\ last'.calls = <<"Begin">>
                      /\ \/ /\ handles'[r].db = SqlTx(Len(txs) + 1)
                            /\ txs' = Append(txs, "active")
                            /\ handles'[r].err = handles[s].err
                         \/ /\ handles'[r].db = NilTx
                            /\ txs' = txs
                            /\ Has(handles'[r], ErrBegin)
                 ELSE /\ Has(handles'[r], ErrCantStartTransaction)
                      /\ handles'[r].db = handles[s].db
                      /\ last'.calls = <<>>
                      /\ txs' = txs]_vars

\* Begin was called on a handle already bound to a transaction.
C5_Witness ==
    /\ last.op = "Begin"
    /\ handles[last.recv].db.kind = "sqlTx"
    /\ Has(handles[last.ret], ErrCantStartTransaction)
    /\ handles[last.ret].db = handles[last.recv].db

\* C6. Error aggregation: on a handle that was given no record-not-found
\* sentinel, GetErrors is the list of the distinct errors AddError was given,
\* in order of first occurrence (so a nil or repeated error changed nothing);
\* Error() is nil for none, the error itself for one, the aggregate of the
\* list for more.
C6_ErrorAggregation ==
    \A h \in DOMAIN handles :
        ~SeqContains(added[h], ErrRecordNotFound) =>
            /\ GetErrors(handles[h]) = added[h]
            /\ Len(added[h]) = 0 => handles[h].err = NilErr
            /\ Len(added[h]) = 1 => handles[h].err = OneErr(added[h][1])
            /\ Len(added[h]) > 1 => handles[h].err = AggErr(added[h])

\* AddError was given an error a second time on a handle holding two.
C6_Witness ==
    /\ last.op = "AddError"
    /\ last.arg = OneErr("e1")
    /\ handles[last.recv].err = AggErr(<<"e1", "e2">>)

OtherFailure(h) == \E i \in 1..Len(added[h]) : added[h][i] # ErrRecordNotFound

\* C7 as claimed: RecordNotFound() is true exactly when the sentinel was
\* recorded on the handle, and whenever another failure was recorded Error()
\* is non-nil and RecordNotFound() is false.
C7_NotFoundExcludesOthers ==
    \A h \in DOMAIN handles :
        /\ RecordNotFound(handles[h])
               <=> SeqContains(added[h], ErrRecordNotFound)
        /\ OtherFailure(h) =>
               handles[h].err # NilErr /\ ~RecordNotFound(handles[h])

\* C7 amended: RecordNotFound() is true exactly when the sentinel was recorded
\* on the handle, whether or not another failure was recorded as well;
\* whenever any failure was recorded Error() is non-nil; RecordNotFound() is
\* false when only other failures were recorded.
C7_NotFoundDistinction ==
    \A h \in DOMAIN handles :
        /\ RecordNotFound(handles[h])
               <=> SeqContains(added[h], ErrRecordNotFound)
        /\ added[h] # <<>> => handles[h].err # NilErr
        /\ (OtherFailure(h) /\ ~SeqContains(added[h], ErrRecordNotFound)) =>
               handles[h].err # NilErr /\ ~RecordNotFound(handles[h])

\* A lookup that matched no row returned a handle, and another failure was
\* recorded on that handle afterwards.
C7_Witness ==
    \E h \in DOMAIN handles :
        /\ added[h] = <<ErrRecordNotFound, "e1">>
        /\ RecordNotFound(handles[h])
        /\ last.op = "AddError"
        /\ last.recv = h

TerminalOps ==
    {"First", "Take", "Last", "Find", "Scan", "Create", "Save", "Update",
     "Updates", "UpdateColumn", "UpdateColumns", "Delete", "FirstOrInit",
     "FirstOrCreate"}

Count(q, x) == Cardinality({i \in 1..Len(q) : q[i] = x})

\* The Search a logged call looked rows up with: the receiver's conditions
\* and the inline condition.
LookupSearch(e) ==
    IF e.where = "" THEN e.conds ELSE SearchApply(e.conds, "Where", e.where)

HadMatch(e) == \E r \in e.rowsBefore : Matches(r, LookupSearch(e), BlankStruct)

\* Calls of the same operation with the same conditions.
SameCall(a, b) ==
    a.op = b.op /\ a.conds = b.conds /\ a.where = b.where

FirstOfItsKind(i) == \A k \in 1..(i - 1) : ~SameCall(log[k], log[i])

\* The later calls run no create chain, add no row and find a row.
LaterCallsFind(i) ==
    \A j \in (i + 1)..Len(log) :
        SameCall(log[i], log[j]) =>
            /\ Count(log[j].chains, "creates") = 0
            /\ Cardinality(log[j].rowsAfter) = Cardinality(log[j].rowsBefore)
            /\ log[j].lookup = NilErr

BuiltRow(e) ==
    UpdatedAttrs(UpdatedAttrs(WhereAttrs(BlankStruct, LookupSearch(e).conds),
                              e.conds.initAttrs),
                 e.conds.assignAttrs)

\* The call went through a handle without error, nothing failed underneath,
\* and the row it builds satisfies its own conditions.
Regular(e) ==
    /\ e.recvErr = NilErr
    /\ ~e.fail
    /\ ~e.cfail
    /\ Matches(BuiltRow(e), LookupSearch(e), BlankStruct)

Initialized(e) == e.ret # NilPtr /\ SeqContains(e.lookup.errs, ErrRecordNotFound)

\* C9. FirstOrInit runs the query chain and no other chain, and leaves the
\* rows as they were; two calls with the same conditions against the empty
\* table that both initialize the value yield equal values.
C9_FirstOrInitNoPersistence ==
    \A i \in 1..Len(log) :
        log[i].op = "FirstOrInit" =>
            /\ \A k \in 1..Len(log[i].chains) : log[i].chains[k] = "queries"
            /\ log[i].rowsAfter = log[i].rowsBefore
            /\ \A j \in 1..Len(log) :
                  (/\ SameCall(log[i], log[j])
                   /\ log[i].rowsBefore = {}
                   /\ log[j].rowsBefore = {}
                   /\ Initialized(log[i])
                   /\ Initialized(log[j]))
                      => log[i].out = log[j].out

\* FirstOrInit was called twice with the same conditions on the empty table
\* and initialized the value from them both times.
C9_Witness ==
    /\ Len(log) = 2
    /\ log[1].op = "FirstOrInit"
    /\ SameCall(log[1], log[2])
    /\ Initialized(log[1])
    /\ Initialized(log[2])
    /\ log[2].out = Struct(0, "a")
    /\ rows = {}

\* What C10 promises of a call whose lookup failed: the returned handle has
\* the lookup's error, the value is as it was passed, only the query chain
\* ran, the rows are as they were.
Propagated(e) ==
    /\ e.retErr = e.lookup
    /\ e.out = BlankStruct
    /\ \A k \in 1..Len(e.chains) : e.chains[k] = "queries"
    /\ e.rowsAfter = e.rowsBefore

\* C10 as claimed: when the lookup's error is not the record-not-found
\* sentinel, FirstOrInit and FirstOrCreate return at once with that error and
\* without side effects.
C10_NonSentinelPropagates ==
    \A i \in 1..Len(log) :
        (log[i].lookup # NilErr /\ log[i].lookup # OneErr(ErrRecordNotFound))
            => Propagated(log[i])

\* C10 amended: when the lookup's error is not the sentinel and does not
\* contain it (an aggregate holding the sentinel next to other errors counts
\* as not found), FirstOrInit and FirstOrCreate return at once with that error
\* and without side effects.
C10_ErrorWithoutSentinelPropagates ==
    \A i \in 1..Len(log) :
        (/\ log[i].lookup # NilErr
         /\ ~SeqContains(log[i].lookup.errs, ErrRecordNotFound))
            => Propagated(log[i])

\* The lookup of a FirstOrCreate through a handle with conditions and Assign
\* values failed underneath.
C10_Witness ==
    \E i \in 1..Len(log) :
        /\ log[i].op = "FirstOrCreate"
        /\ log[i].lookup = OneErr(ErrQuery)
        /\ log[i].recvErr = NilErr
        /\ log[i].conds.assignAttrs # ""
        /\ Propagated(log[i])

\* C11. Save dispatch: with a zero primary key Save runs the create chain
\* once and nothing else. With a non-zero primary key it runs the update
\* chain first; when that update fails (the handle already held an error or
\* the statement failed) or matched a row, Save runs nothing more, inserts
\* nothing and returns the update's result; only when it neither failed nor
\* matched a row does Save go on to FirstOrCreate, whose lookup comes next.
C11_SaveDispatch ==
    [][last'.op = "Save" =>
          LET s == last'.recv
              v == last'.arg.value
              matched == {r \in rows :
                             Matches(r, ObservedConds(handles, searches, s), v)}
              failed == handles[s].err # NilErr \/ last'.arg.ufail
          IN  IF v.id <= 0
              THEN last'.chains = <<"creates">>
              ELSE IF ~failed /\ matched = {}
              THEN /\ Len(last'.chains) >= 2
                   /\ last'.chains[1] = "updates"
                   /\ last'.chains[2] = "queries"
                   /\ Count(last'.chains, "updates") = 1
              ELSE /\ last'.chains = <<"updates">>
                   /\ Cardinality(rows') = Cardinality(rows)
                   /\ failed => handles'[last'.ret].err # NilErr
                   /\ ~failed => handles'[last'.ret].rowsAffected
                                     = Cardinality(matched)]_vars

\* Save of a value with a primary key no row has: the update matched nothing
\* and FirstOrCreate inserted the value.
C11_Witness ==
    /\ last.op = "Save"
    /\ last.arg.value.id > 0
    /\ last.chains = <<"updates", "queries", "creates">>
    /\ last.arg.value \in rows

\* The chain of one kind that a terminal operation through s executes: the
\* one of the registry of the root s descends from.
RootChain(s, kind) == registries[handles[handles[s].parent].callbacks][kind]

\* C12. Callback ordering: a step X registered Before(N), respectively
\* After(N), on a chain that has the step N stands before, respectively
\* after, N in the chain, and the steps registered earlier keep their
\* relative order; every execution of the chain runs the steps of the
\* registry of its root in that order, so X runs strictly before,
\* respectively after, N from then on.
C12_CallbackOrdering ==
    [][/\ last'.op \in {"Before", "After"} =>
             LET r == last'.arg.reg
                 kind == last'.arg.kind
                 N == last'.arg.at
                 X == last'.arg.step
                 old == registries[r][kind]
                 new == registries'[r][kind]
             IN  HasStep(old, N) /\ N # X.name =>
                     /\ HasStep(new, X.name) /\ HasStep(new, N)
                     /\ last'.op = "Before" =>
                            IndexOf(new, X.name) < IndexOf(new, N)
                     /\ last'.op = "After" =>
                            IndexOf(new, X.name) > IndexOf(new, N)
                     /\ Without(new, X.name) = Without(old, X.name)
       /\ last'.op = "Create" =>
             last'.steps = StepNamesOf(RootChain(last'.recv, "creates"))]_vars

\* A create that ran y before x and x before gorm:create, as registered by
\* Before("gorm:create") of x and then Before("x") of y.
C12_Witness ==
    /\ last.op = "Create"
    /\ last.steps = <<"gorm:before_create", "y", "x", "gorm:create">>

\* C13. Chain execution: one terminal operation runs every step of its chain
\* exactly once, in the order of the chain; a step that records an error
\* does not stop the chain; and every error a step recorded is among the
\* errors of the handle returned. The steps `fail' and `notfound' record
\* their error whatever the handle holds. The code does not keep the last
\* part: a step that records the record-not-found sentinel after another
\* step recorded an error leaves the sentinel alone on the handle, because
\* AddError stores the sentinel without the errors already there.
C13_ChainExecution ==
    [][last'.op = "Create" =>
          LET chain == RootChain(last'.recv, "creates")
              errs == GetErrors(handles'[last'.ret])
          IN  /\ last'.steps = StepNamesOf(chain)
              /\ \A i \in 1..Len(chain) :
                     /\ chain[i].fn = "fail" => SeqContains(errs, ErrStep)
                     /\ chain[i].fn = "notfound" =>
                            SeqContains(errs, ErrRecordNotFound)]_vars

\* The methods that return a handle derived from their receiver.
ChainOps ==
    BuilderOps \cup {"Model", "New", "Set", "Debug", "Begin"} \cup TerminalOps

\* The handles that have the parent p.
Family(h, p) == {g \in DOMAIN h : h[g].parent = p}

CopyAndFrame ==
    /\ last'.op = "Callback" =>
          LET p == handles[last'.recv].parent
              k == last'.out
          IN  /\ k \notin DOMAIN registries
              /\ \A kind \in {"creates", "updates", "deletes", "queries"} :
                     registries'[k][kind]
                         = registries[handles[p].callbacks][kind]
              /\ handles'[p].callbacks = k
              /\ \A r \in DOMAIN registries : registries'[r] = registries[r]
    /\ last'.op \in {"Register", "Replace", "Remove"} =>
          LET A == registries[last'.arg.reg].root
          IN  /\ registries'[DefaultCallback] = registries[DefaultCallback]
              /\ \A g \in DOMAIN handles :
                     handles[g].parent # A =>
                         registries'[handles'[handles'[g].parent].callbacks]
                             = registries[handles[handles[g].parent].callbacks]
    /\ last'.op = "Create" =>
          last'.steps = StepNamesOf(RootChain(last'.recv, "creates"))

\* C15, as claimed. Registry isolation between roots: CopyAndFrame, and a
\* registration through a registry that Callback() returned on a handle of
\* root A applies to every handle descended from A. Not so for a registry
\* that a later Callback() on a handle of A has replaced.
C15_RegistryIsolation ==
    [][/\ CopyAndFrame
       /\ last'.op \in {"Register", "Replace", "Remove"} =>
             LET r == last'.arg.reg
                 A == registries[r].root
             IN  \A g \in Family(handles', A) :
                    registries'[handles'[handles'[g].parent].callbacks]
                        = registries'[r]]_vars

\* C15, amended. The registration applies to the handles descended from A
\* as long as the registry is the one A has, that is until the next
\* Callback() on a handle of A; through a registry A no longer has it
\* changes no chain that a handle executes.
C15_RegistryIsolationWhileInstalled ==
    [][/\ CopyAndFrame
       /\ last'.op \in {"Register", "Replace", "Remove"} =>
             LET r == last'.arg.reg
                 A == registries[r].root
             IN  \A g \in Family(handles', A) :
                    IF handles[A].callbacks = r
                    THEN handles'[handles'[g].parent].callbacks = r
                    ELSE registries'[handles'[handles'[g].parent].callbacks]
                           = registries[handles[handles[g].parent].callbacks]
      ]_vars

\* The step x registered through the registry that Callback() returned on
\* root 1 and that root 1 still has: it is in the create chain of a handle
\* derived from root 1 and not in the one of root 2.
C15_Witness ==
    /\ last.op = "Register"
    /\ registries[last.arg.reg].root = 1
    /\ \E g \in DOMAIN handles \ Roots :
          /\ handles[g].parent = 1
          /\ HasStep(RootChain(g, "creates"), "x")
    /\ ~HasStep(RootChain(2, "creates"), "x")

\* C16. Association(column) returns an Association without error exactly
\* when the primary key of the receiver's value is not blank, the column is
\* a field of the value and the field has a relationship with a foreign
\* key; it is then bound to a scope of that value and to the field.
\* Otherwise the Association carries an error and is bound to no scope and
\* no field, and Append, Replace, Delete, Clear and Count on it change
\* nothing and keep the error. Association leaves the receiver, and every
\* handle held, as it was.
C16_AssociationValidation ==
    [][/\ last'.op = "Association" =>
             LET A == assocs'[last'.out]
                 v == handles[last'.recv].value
                 column == last'.arg
                 valid == /\ v.id # 0
                          /\ column \in FieldNames
                          /\ Relationship(column) # NoRelationship
                          /\ Len(Relationship(column)) > 0
             IN  /\ last'.out \notin DOMAIN assocs
                 /\ (A.err = NilErr) <=> valid
                 /\ valid => A.scope.value = v /\ A.field = column
                 /\ ~valid => A.scope = NoScope /\ A.field = ""
                 /\ handles' = handles
                 /\ searches' = searches
                 /\ \A a \in DOMAIN assocs : assocs'[a] = assocs[a]
       /\ (last'.op \in AssociationOps
              /\ assocs[last'.arg.assoc].err # NilErr) =>
             /\ assocs' = assocs
             /\ handles' = handles
             /\ rows' = rows]_vars

\* An operation on an Association that carries an error, while another
\* Association, without error, has a related row from an Append.
C16_Witness ==
    /\ last.op \in AssociationOps
    /\ assocs[last.arg.assoc].err # NilErr
    /\ \E a \in DOMAIN assocs :
          assocs[a].err = NilErr /\ assocs[a].related # {}

\* C17. Every schema operation runs its statements against a Scope whose
\* Search has the unscoped flag on, whatever the receiver's flag, and runs
\* no step of any callback chain. The code forces the flag in CreateTable,
\* AutoMigrate, AddIndex and AddUniqueIndex only: the other operations run
\* with the receiver's flag.
C17_SchemaUnscoped ==
    [][last'.op \in SchemaOps =>
          /\ last'.chains = <<>>
          /\ last'.steps = <<>>
          /\ \A i \in 1..Len(last'.ddl) : last'.ddl[i].unscoped]_vars

\* C18. Settings: Set(name, v) returns a new handle on which Get(name)
\* yields v, and leaves the settings of the receiver as they were;
\* InstantSet(name, v) changes the settings of the receiver, returns the
\* receiver, and changes the settings of no other handle; a clone starts
\* with the settings of its source; Get of a name that is not set returns
\* ok = false, and Get changes nothing, so records no error.
C18_Settings ==
    [][/\ last'.op = "Set" =>
             LET s == last'.recv
                 n == last'.arg.name
             IN  /\ last'.ret \notin DOMAIN handles
                 /\ Get(handles'[last'.ret], n)
                        = [value |-> last'.arg.value, ok |-> TRUE]
                 /\ handles'[s].values = handles[s].values
                 /\ \A k \in SettingKeys \ {n} :
                        handles'[last'.ret].values[k] = handles[s].values[k]
       /\ last'.op = "InstantSet" =>
             /\ last'.ret = last'.recv
             /\ Get(handles'[last'.recv], last'.arg.name)
                    = [value |-> last'.arg.value, ok |-> TRUE]
             /\ \A g \in DOMAIN handles \ {last'.recv} :
                    handles'[g].values = handles[g].values
       /\ last'.op \in {"Where", "New"} =>
             /\ last'.ret \notin DOMAIN handles
             /\ handles'[last'.ret].values = handles[last'.recv].values
       /\ last'.op = "Get" =>
             /\ handles[last'.recv].values[last'.arg.name] = Absent
                    => ~last'.out.ok
             /\ handles[last'.recv].values[last'.arg.name] # Absent
                    => last'.out = [value |-> handles[last'.recv].values[
                                                 last'.arg.name],
                                    ok |-> TRUE]
             /\ handles' = handles]_vars

\* InstantSet on a clone whose source keeps the value it got from Set.
C18_Witness ==
    /\ last.op = "InstantSet"
    /\ \E g \in DOMAIN handles \ {last.recv} :
          /\ handles[g].values[last.arg.name] # Absent
          /\ handles[g].values[last.arg.name] # last.arg.value

\* The lookup of the call found a record.
Found(e) == e.lookup = NilErr

IsPrefix(a, b) == Len(a) <= Len(b) /\ a = SubSeq(b, 1, Len(a))

C21_SentinelKeepsErrors ==
    [][(/\ last'.op = "AddError"
        /\ last'.arg = OneErr(ErrRecordNotFound)
        /\ handles[last'.recv].err # NilErr) =>
          LET before == GetErrors(handles[last'.recv])
              after == GetErrors(handles'[last'.recv])
          IN  /\ \A i \in 1..Len(before) : SeqContains(after, before[i])
              /\ RecordNotFound(handles'[last'.recv])]_vars

\* What logging leaves alone: AddError records and returns what it would
\* without any logging, and a log task changes nothing but the logger.
LoggingIsSideEffectOnly ==
    /\ last'.op = "AddError" =>
          LET d == handles[last'.recv]
              err == last'.arg
          IN  /\ handles'[last'.recv].err
                     = (IF err = NilErr THEN d.err ELSE AddErrorValue(d, err))
              /\ last'.out = (IF err = NilErr THEN err
                              ELSE AddErrorValue(d, err))
              /\ err \in {NilErr, OneErr(ErrRecordNotFound)} =>
                     logger' = logger
    /\ last'.op = "LogTask" =>
          /\ handles' = handles
          /\ added' = added
          /\ Len(logger'.printed) = Len(logger.printed) + 1
          /\ Len(logger'.pending) = Len(logger.pending) - 1

Dispatched(err) ==
    /\ logger'.pending = Append(logger.pending, LogLine(err))
    /\ logger'.printed = logger.printed

\* C22, as claimed. In every log mode AddError of an error other than the
\* sentinel dispatches one log line as a background task, and logging is
\* side effect only. Not so in the log modes 1 and 2.
C22_LogsInBackgroundInEveryMode ==
    [][/\ LoggingIsSideEffectOnly
       /\ (/\ last'.op = "AddError"
           /\ last'.arg \notin {NilErr, OneErr(ErrRecordNotFound)}) =>
             Dispatched(last'.arg)]_vars

\* C22, amended. In the default log mode, 0, AddError of an error other than
\* the sentinel dispatches one log line as a background task; in the log
\* mode 2 it prints the line itself before it returns; in the log mode 1 it
\* logs nothing. Logging is side effect only.
C22_LogsByMode ==
    [][/\ LoggingIsSideEffectOnly
       /\ (/\ last'.op = "AddError"
           /\ last'.arg \notin {NilErr, OneErr(ErrRecordNotFound)}) =>
             LET mode == handles[last'.recv].logMode
             IN  /\ mode = 0 => Dispatched(last'.arg)
                 /\ mode = 2 =>
                        /\ logger'.printed
                               = Append(logger.printed, LogLine(last'.arg))
                        /\ logger'.pending = logger.pending
                 /\ mode = 1 => logger' = logger]_vars

\* A second error was added while the log line of the first was yet to be
\* printed, and the line of the second was printed before it.
C22_Witness ==
    /\ last.op = "LogTask"
    /\ logger.printed = <<<<"e2">>>>
    /\ logger.pending = <<<<"e1">>>>
    /\ \E h \in DOMAIN handles : GetErrors(handles[h]) = <<"e1", "e2">>

\* The methods that return a copy of their receiver with something set.
DeriveOps == BuilderOps \cup {"Model", "Set", "Debug", "New"}

\* C23. Errors are sticky along a chain: the handle a condition-building
\* method, Model, Table, Set, Debug or New returns has the error of its
\* receiver, and the handle a terminal operation returns has every error
\* its receiver had. The code does not keep the last part on a chain with
\* a step that records the record-not-found sentinel: AddError stores the
\* sentinel without the errors already there.
C23_StickyErrors ==
    [][/\ (/\ last'.op \in DeriveOps
           /\ last'.ret \in DOMAIN handles' \ DOMAIN handles) =>
             handles'[last'.ret].err = handles[last'.recv].err
       /\ (/\ last'.op \in TerminalOps
           /\ handles[last'.recv].err # NilErr) =>
             LET before == GetErrors(handles[last'.recv])
                 after == GetErrors(handles'[last'.ret])
             IN  \A i \in 1..Len(before) : SeqContains(after, before[i])]_vars

\* The receiver of the call held no error and its lookup matched no row.
CleanMiss(e) == e.recvErr = NilErr /\ e.lookup = OneErr(ErrRecordNotFound)

\* C24. When the receiver holds no error and the lookup matches no row, the
\* handle FirstOrInit returns has no error, and the handle FirstOrCreate
\* returns has the errors of the create chain only: the insert's error when
\* the insert fails, none otherwise. The sentinel of the lookup is on
\* neither.
C24_SentinelNotCarried ==
    \A i \in 1..Len(log) :
        CleanMiss(log[i]) =>
            /\ ~SeqContains(log[i].retErr.errs, ErrRecordNotFound)
            /\ log[i].op = "FirstOrInit" => log[i].retErr = NilErr
            /\ log[i].op = "FirstOrCreate" =>
                   log[i].retErr
                       = IF log[i].cfail THEN OneErr(ErrInsert) ELSE NilErr

\* FirstOrInit, then FirstOrCreate with an insert that fails, both through
\* the root and both with a lookup that matched no row.
C24_Witness ==
    /\ Len(log) = 2
    /\ log[1].op = "FirstOrInit"
    /\ log[2].op = "FirstOrCreate"
    /\ CleanMiss(log[1])
    /\ CleanMiss(log[2])
    /\ log[2].cfail
    /\ handles[log[1].ret].err = NilErr
    /\ ~RecordNotFound(handles[log[1].ret])
    /\ handles[log[2].ret].err = OneErr(ErrInsert)

\* The terminal operations that limit, order or take inline conditions.
ScopedOps == {"First", "Take", "Last", "Find", "Delete"}

\* C25. The limit of 1, the primary-key ordering directive and the inline
\* conditions of First, Take, Last, Find and Delete belong to the Scope of
\* the one operation: the handle returned has the condition set of the
\* receiver and the ordering directive of the receiver, so that an
\* operation chained on it inherits none of them. The code keeps the
\* condition set and loses the directive: Scope.Set writes it into the
\* settings of the Scope's handle, which is the handle returned.
C25_ScopeOnly ==
    [][last'.op \in ScopedOps =>
          /\ ObservedConds(handles', searches', last'.ret)
                 = ObservedConds(handles, searches, last'.recv)
          /\ Get(handles'[last'.ret], "gorm:order_by_primary_key")
                 = Get(handles[last'.recv], "gorm:order_by_primary_key")]_vars

\* The table override of the working handle after the first i values: the
\* name the latest string among them gave, or the one it started with.
OverrideAfter(values, i, start) ==
    LET strs == {j \in 1..i : IsString(values[j])}
    IN  IF strs = {} THEN start
        ELSE values[CHOOSE j \in strs : \A k \in strs : k <= j].name

\* C26. DropTable(v1, ..., vn) drops the values in order on one working
\* handle: each value is dropped with the table override of the latest
\* string so far (or the receiver's, when there was none), on a handle that
\* starts with the error the handle of the value before ended with; every
\* error a statement ended with, and every error of the receiver, is on the
\* handle of every later value and on the handle returned; the handle
\* returned has the override and the error of the last value; the receiver
\* keeps its table override and its error.
C26_DropTableThreaded ==
    [][last'.op = "DropTable" =>
          LET values == last'.arg.values
              errs == last'.arg.errs
              seen == last'.out
              recv == last'.recv
              ret == last'.ret
              n == Len(values)
              start == ObservedConds(handles, searches, recv).tableName
          IN  /\ Len(seen) = n
              /\ \A i \in 1..n :
                     /\ seen[i].table = OverrideAfter(values, i, start)
                     /\ seen[i].before = IF i = 1 THEN handles[recv].err
                                         ELSE seen[i - 1].err
                     /\ \A j \in 1..i :
                            errs[j] # NilErr =>
                                SeqContains(seen[i].err.errs, errs[j].errs[1])
                     /\ \A k \in 1..Len(handles[recv].err.errs) :
                            SeqContains(seen[i].err.errs,
                                        handles[recv].err.errs[k])
              /\ handles'[ret].err = IF n = 0 THEN handles[recv].err
                                     ELSE seen[n].err
              /\ ObservedConds(handles', searches', ret).tableName
                     = OverrideAfter(values, n, start)
              /\ handles'[recv].err = handles[recv].err
              /\ ObservedConds(handles', searches', recv)
                     = ObservedConds(handles, searches, recv)]_vars

\* DropTable("t1", struct), both of whose statements failed, through a
\* handle with the table override "t0" and an error: the struct was dropped
\* with the override "t1", the three errors are on the handle returned, and
\* the receiver has the override and the error it had.
C26_Witness ==
    /\ last.op = "DropTable"
    /\ last.arg.values = <<StringValue("t1"), Struct(1, "a")>>
    /\ last.arg.errs = <<OneErr("d1"), OneErr("d2")>>
    /\ last.out[2].table = "t1"
    /\ GetErrors(handles[last.ret]) = <<"e1", "d1", "d2">>
    /\ ObservedConds(handles, searches, last.recv).tableName = "t0"
    /\ GetErrors(handles[last.recv]) = <<"e1">>

====
